---- MODULE Spec2Model ----
(***************************************************************************)
(* A model of the bi-weekly investment planner: the InvestmentPlanner      *)
(* session object (invest_plan.py) and the web handlers that mutate the    *)
(* process-wide planner (app.py).                                          *)
(*                                                                         *)
(* Real numbers are exact rationals <<n, d>> in lowest terms with d > 0,   *)
(* so sums, products, quotients and the rounding of shares are computed    *)
(* as the formulas of the code state them. Floating-point representation   *)
(* error, NaN and infinities are outside the model.                        *)
(***************************************************************************)
EXTENDS Integers, Sequences, FiniteSets, TLC

VARIABLES
    env,           \* the process environment: the providers whose API key is set
    pc,            \* "start" | "web" | "exited"
    planner,       \* TRUE iff an InvestmentPlanner object exists
    contribution,  \* planner.contribution
    provider,      \* planner.provider
    buckets,       \* planner.config['allocation_buckets'], in dict order
    holdings,      \* planner.holdings, one record per DataFrame row
    quotes,        \* planner.quotes : ticker -> quote record
    news,          \* planner.news   : ticker -> list of stored articles
    news_per_ticker, \* planner.news_per_ticker
    api_client,    \* which client planner.api_client is
    requests,      \* the add_holding requests in flight, one per worker thread
    out            \* what the last operation returned to its caller

vars == <<env, pc, planner, contribution, provider, buckets, holdings, quotes, news,
          news_per_ticker, api_client, requests, out>>

session == <<planner, contribution, provider, buckets, holdings, quotes, news,
             news_per_ticker, api_client>>

----------------------------------------------------------------------------
(* Exact rational arithmetic.                                              *)

Abs(x) == IF x < 0 THEN -x ELSE x

RECURSIVE GCD(_, _)
GCD(a, b) == IF b = 0 THEN a ELSE GCD(b, a % b)

Rat(n, d) ==
    IF n = 0 THEN <<0, 1>>
    ELSE IF d = 1 THEN <<n, 1>>
    ELSE LET g == GCD(Abs(n), Abs(d))
         IN  IF d < 0 THEN <<(-n) \div g, (-d) \div g>> ELSE <<n \div g, d \div g>>

Num(n) == <<n, 1>>
Zero == <<0, 1>>

RMul(x, y) ==
    IF x[1] = 0 \/ y[1] = 0 THEN Zero
    ELSE LET g1 == GCD(Abs(x[1]), y[2])
             g2 == GCD(Abs(y[1]), x[2])
         IN  Rat((x[1] \div g1) * (y[1] \div g2), (x[2] \div g2) * (y[2] \div g1))

RDiv(x, y) == RMul(x, IF y[1] < 0 THEN <<-y[2], -y[1]>> ELSE <<y[2], y[1]>>)

RAdd(x, y) ==
    IF x[1] = 0 THEN y
    ELSE IF y[1] = 0 THEN x
    ELSE LET g == GCD(x[2], y[2])
             l == (x[2] \div g) * y[2]
         IN  Rat(x[1] * (l \div x[2]) + y[1] * (l \div y[2]), l)

RNeg(x) == <<-x[1], x[2]>>
RSub(x, y) == RAdd(x, RNeg(y))
RAbs(x) == <<Abs(x[1]), x[2]>>
RLt(x, y) == RSub(x, y)[1] < 0
RLe(x, y) == RSub(x, y)[1] <= 0
RPos(x) == x[1] > 0

(* The sum of s[lo..hi], by halves                                          *)
RECURSIVE RSumRange(_, _, _)
RSumRange(s, lo, hi) ==
    IF lo > hi THEN Zero
    ELSE IF lo = hi THEN s[lo]
    ELSE RAdd(RSumRange(s, lo, (lo + hi) \div 2), RSumRange(s, (lo + hi) \div 2 + 1, hi))

RSum(s) == RSumRange(s, 1, Len(s))

(* The multiple nearest to q + r/d, a tie going to the even one            *)
HalfEven(q, r, d) ==
    IF 2 * r < d THEN q
    ELSE IF 2 * r > d THEN q + 1
    ELSE IF q % 2 = 0 THEN q ELSE q + 1

RoundScaled(m) == Rat(HalfEven(m[1] \div m[2], m[1] % m[2], m[2]), 10000)

(* round(x, ndigits=4): the nearest multiple of 1/10000, a tie going to the *)
(* even multiple.                                                          *)
Round4(x) == RoundScaled(RMul(x, Num(10000)))

Range(s) == {s[i] : i \in DOMAIN s}

----------------------------------------------------------------------------
(* Program data.                                                           *)

H(t, name, sh, ac, cat) ==
    [Ticker |-> t, CompanyName |-> name, Shares |-> sh, AvgCost |-> ac, Category |-> cat]

(* InvestmentPlanner._initialize_holdings                                  *)
InitialHoldings == <<
    H("NVDA", "NVIDIA Corporation", Rat(103, 100), Rat(11922, 100), "Growth / AI"),
    H("MSFT", "Microsoft Corporation", Rat(20, 100), Num(490), "Core / Tech Blue Chip"),
    H("AMZN", "Amazon.com Inc.", Rat(11, 100), Num(193), "Growth / Consumer Tech"),
    H("TSLA", "Tesla Inc.", Rat(8, 100), Num(164), "High Volatility / Growth"),
    H("CRWD", "CrowdStrike Holdings Inc.", Rat(14, 100), Num(305), "Cybersecurity / Growth"),
    H("GOOGL", "Alphabet Inc. Class A", Rat(37, 100), Num(199), "Core / Tech"),
    H("AAPL", "Apple Inc.", Rat(51, 100), Num(223), "Core / Tech"),
    H("PANW", "Palo Alto Networks Inc.", Rat(29, 100), Num(189), "Cybersecurity"),
    H("AVGO", "Broadcom Inc.", Rat(60, 100), Num(244), "Dividend / Semi"),
    H("UNH", "UnitedHealth Group Inc.", Zero, Zero, "Defensive / Healthcare"),
    H("UPS", "United Parcel Service Inc.", Zero, Zero, "Dividend / Industrial"),
    H("VST", "Vistra Corp.", Zero, Zero, "Utility / Energy"),
    H("HIMS", "Hims & Hers Health Inc.", Zero, Zero, "Speculative / HealthTech"),
    H("AB", "AllianceBernstein Holding L.P.", Rat(44, 100), Num(32), "Dividend / Asset Mgmt"),
    H("ZYNE", "Zynerba Pharmaceuticals Inc.", Num(1), Rat(125, 100), "Speculative / Biotech"),
    H("BULL", "Direxion Daily S&P 500 Bull 3X ETF", Rat(346, 100), Rat(707, 100), "Leveraged ETF") >>

B(name, pct, tickers) == [name |-> name, percentage |-> pct, tickers |-> tickers]

(* default_config['allocation_buckets'] of InvestmentPlanner._load_config  *)
DefaultBuckets == <<
    B("Core / Tech", Num(25), <<"AAPL", "MSFT", "GOOGL", "AVGO">>),
    B("Growth / AI", Num(30), <<"NVDA", "AMZN", "TSLA", "CRWD", "PANW">>),
    B("Dividend / Defensive", Num(20), <<"UNH", "UPS", "VST", "AB">>),
    B("Speculative / High Risk", Num(15), <<"HIMS", "ZYNE", "BULL">>),
    B("Future Additions", Num(10), <<"VTI", "VOO", "SCHD">>) >>

Providers == {"finnhub", "polygon", "alpha"}

(* str.lower() on the provider names a caller may pass                     *)
Lower(s) ==
    CASE s = "FINNHUB" -> "finnhub"
      [] s = "Alpha" -> "alpha"
      [] OTHER -> s

(* str.upper() on the ticker strings a request may carry                   *)
Upper(s) ==
    CASE s = "nvda" -> "NVDA"
      [] s = "vti" -> "VTI"
      [] s = "voo" -> "VOO"
      [] OTHER -> s

(* str.title() on a provider name                                          *)
Title(s) ==
    CASE s = "finnhub" -> "Finnhub"
      [] s = "polygon" -> "Polygon"
      [] s = "alpha" -> "Alpha"
      [] OTHER -> s

----------------------------------------------------------------------------
(* Inputs: the configuration documents a caller may name.                  *)

Doc(hasBuckets, bs) == [kind |-> "doc", has_buckets |-> hasBuckets, buckets |-> bs]

NoConfigFile == [kind |-> "none", has_buckets |-> FALSE, buckets |-> <<>>]
UnreadableConfigFile == [kind |-> "unreadable", has_buckets |-> FALSE, buckets |-> <<>>]
CfgOneBucket == Doc(TRUE, << B("A", Num(100), <<"NVDA", "UNH">>) >>)
Cfg5030 == Doc(TRUE, << B("ETF/Index", Num(50), <<"VTI">>), B("Growth", Num(30), <<"NVDA">>) >>)
CfgEmptyBucket ==
    Doc(TRUE, << B("Cash", Num(40), <<>>), B("Growth", Num(60), <<"NVDA", "VTI", "MSFT">>) >>)
CfgFractional ==
    Doc(TRUE, << B("A", Rat(3333, 100), <<"NVDA">>), B("B", Rat(3333, 100), <<"MSFT">>),
                 B("C", Rat(33335, 1000), <<"AAPL">>) >>)
CfgOver == Doc(TRUE, << B("A", Num(60), <<"NVDA">>), B("B", Rat(4002, 100), <<"MSFT">>) >>)
CfgNoBuckets == Doc(FALSE, <<>>)
CfgCashOnly == Doc(TRUE, << B("Cash", Num(100), <<>>) >>)

ConfigFiles ==
    {NoConfigFile, UnreadableConfigFile, CfgOneBucket, Cfg5030, CfgEmptyBucket,
     CfgFractional, CfgOver, CfgNoBuckets, CfgCashOnly}

----------------------------------------------------------------------------
(* Construction.                                                           *)

(* InvestmentPlanner._load_config: a readable document is merged over the   *)
(* defaults key by key (dict.update), an unreadable one leaves the         *)
(* defaults; then the bucket percentages must sum to 100 within 0.01.      *)
MergedBuckets(config_file) ==
    IF config_file.kind = "doc" /\ config_file.has_buckets
    THEN config_file.buckets
    ELSE DefaultBuckets

(* A validation that only rejects an excess over 100                        *)
PercentagesValidUpTo(bs) ==
    ~ RLt(Rat(1, 100), RSub(RSum([i \in DOMAIN bs |-> bs[i].percentage]), Num(100)))

(* abs(total_percentage - 100) > 0.01 raises ValueError                     *)
PercentagesValid(bs) ==
    ~ RLt(Rat(1, 100), RAbs(RSub(RSum([i \in DOMAIN bs |-> bs[i].percentage]), Num(100))))

Validated(bs) ==
    IF PercentagesValid(bs)
    THEN [ok |-> TRUE, buckets |-> bs, error |-> ""]
    ELSE [ok |-> FALSE, buckets |-> <<>>, error |-> "ValueError: percentages"]

LoadConfig(config_file) == Validated(MergedBuckets(config_file))

(* A client that accepts any provider's key                                *)
ClientInitAnyKey(p, keys) ==
    IF keys # {}
    THEN [ok |-> TRUE, client |-> p, error |-> ""]
    ELSE [ok |-> FALSE, client |-> "", error |-> "ValueError: API key not set"]

(* FinnhubClient.__init__, PolygonClient.__init__,                         *)
(* AlphaVantageClient.__init__: the key of that provider must be set.      *)
ClientInit(p, keys) ==
    IF p \in keys
    THEN [ok |-> TRUE, client |-> p, error |-> ""]
    ELSE [ok |-> FALSE, client |-> "", error |-> "ValueError: API key not set"]

(* InvestmentPlanner._get_api_client                                       *)
GetApiClient(p, keys) ==
    IF p \in Providers
    THEN ClientInit(p, keys)
    ELSE [ok |-> FALSE, client |-> "", error |-> "ValueError: unsupported provider"]

EmptyMap == [t \in {} |-> Zero]

(* The body of InvestmentPlanner.__init__ once the configuration is loaded  *)
(* and the client is made: the first error raised, or the planner           *)
Construct(c, prov, npt, cfg, cl) ==
    IF ~ cfg.ok THEN [ok |-> FALSE, error |-> cfg.error]
    ELSE IF ~ cl.ok THEN [ok |-> FALSE, error |-> cl.error]
    ELSE [ok |-> TRUE, error |-> "",
          contribution |-> c, provider |-> prov, news_per_ticker |-> npt,
          buckets |-> cfg.buckets, api_client |-> cl.client,
          holdings |-> InitialHoldings, quotes |-> EmptyMap, news |-> EmptyMap]

(* InvestmentPlanner.__init__: the planner that results, or the error raised *)
NewPlanner(c, prov, npt, config_file, keys) ==
    Construct(c, Lower(prov), npt, LoadConfig(config_file), GetApiClient(Lower(prov), keys))

----------------------------------------------------------------------------
(* The market-data providers. What a provider answers for a ticker is an   *)
(* input: each fetch cycle sees one of the markets below.                  *)

Markets == {"mock", "alt"}

Resp(kind, price, change, pct, articles) ==
    [kind |-> kind, price |-> price, change |-> change, pct |-> pct, articles |-> articles]

(* The request raised: a timeout, a refused connection, an HTTP error status *)
FailedRequest == Resp("error", Zero, Zero, Zero, <<>>)
(* A JSON body without the fields the client reads                          *)
EmptyPayload == Resp("empty", Zero, Zero, Zero, <<>>)
(* A body that is no JSON: response.json() raises                           *)
MalformedPayload == Resp("malformed", Zero, Zero, Zero, <<>>)

(* MockAPIClient.mock_quotes and mock_news of the test harness             *)
MockTable(t) ==
    CASE t = "NVDA" -> Resp("ok", Num(450), Rat(550, 100), Rat(124, 100), <<"nvda1", "nvda2", "nvda3">>)
      [] t = "MSFT" -> Resp("ok", Num(380), Rat(-230, 100), Rat(-60, 100), <<"msft1", "msft2", "msft3">>)
      [] t = "AAPL" -> Resp("ok", Num(175), Rat(120, 100), Rat(69, 100), <<"aapl1", "aapl2", "aapl3">>)
      [] t = "AMZN" -> Resp("ok", Num(145), Rat(340, 100), Rat(240, 100), <<>>)
      [] t = "TSLA" -> Resp("ok", Num(250), Rat(-850, 100), Rat(-329, 100), <<>>)
      [] t = "GOOGL" -> Resp("ok", Num(140), Rat(210, 100), Rat(152, 100), <<>>)
      [] t = "VTI" -> Resp("ok", Num(220), Rat(150, 100), Rat(69, 100), <<>>)
      [] t = "VOO" -> Resp("ok", Num(410), Rat(280, 100), Rat(69, 100), <<>>)
      [] t = "SCHD" -> Resp("ok", Num(75), Rat(30, 100), Rat(40, 100), <<>>)
      [] t = "CRWD" -> Resp("ok", Num(180), Rat(420, 100), Rat(239, 100), <<>>)
      [] t = "PANW" -> Resp("ok", Num(320), Rat(680, 100), Rat(217, 100), <<>>)
      [] t = "AVGO" -> Resp("ok", Num(1200), Rat(1550, 100), Rat(131, 100), <<>>)
      [] t = "UNH" -> Resp("ok", Num(520), Rat(-320, 100), Rat(-61, 100), <<>>)
      [] t = "UPS" -> Resp("ok", Num(160), Rat(180, 100), Rat(114, 100), <<>>)
      [] t = "VST" -> Resp("ok", Num(45), Rat(80, 100), Rat(181, 100), <<>>)
      [] t = "HIMS" -> Resp("ok", Rat(850, 100), Rat(20, 100), Rat(241, 100), <<>>)
      [] t = "AB" -> Resp("ok", Num(35), Rat(50, 100), Rat(145, 100), <<>>)
      [] t = "ZYNE" -> Resp("ok", Rat(250, 100), Rat(-10, 100), Rat(-385, 100), <<>>)
      [] OTHER -> EmptyPayload

(* The answer of the provider's HTTP endpoint for ticker t in market m      *)
Response(m, t) ==
    CASE m = "mock" -> MockTable(t)
      [] OTHER ->
            CASE t = "NVDA" -> Resp("ok", Num(100), Num(1), Num(1), <<"a1", "a2", "a3", "a4", "a5">>)
              [] t = "UNH" -> FailedRequest
              [] t = "UPS" -> MalformedPayload
              [] t = "ZZZ" -> EmptyPayload
              [] OTHER -> Resp("ok", Num(3), Rat(-1, 10), Rat(-123, 100), <<"b1">>)

Value(type, val) == [type |-> type, val |-> val]

Quote(price, change, change_percent, timestamp) ==
    [price |-> price, change |-> change, change_percent |-> change_percent,
     timestamp |-> timestamp]

(* {'price': 0, 'change': 0, 'change_percent': 0, 'timestamp': 'N/A'}       *)
PlaceholderQuote == Quote(Zero, Zero, Value("num", Zero), "N/A")

Returned(v) == [ok |-> TRUE, val |-> v]
Raised(v) == [ok |-> FALSE, val |-> v]

(* try: ... except Exception: the value of the body, or the handler's value *)
(* when the body raised                                                    *)
Caught(attempt, fallback) == IF attempt.ok THEN attempt ELSE Returned(fallback)

(* The body of the try block of one iteration of fetch_quotes of            *)
(* FinnhubClient, PolygonClient and AlphaVantageClient, and the lookup of   *)
(* the harness's MockAPIClient: the quote read from one response, or the    *)
(* exception raised by the request or by reading its body.                  *)
QuoteTry(client, r) ==
    CASE client = "mock" ->
            IF r.kind = "ok" THEN Returned(Quote(r.price, r.change, Value("num", r.pct), "now"))
            ELSE Returned(PlaceholderQuote)
      [] r.kind \in {"error", "malformed"} -> Raised(PlaceholderQuote)
      [] client = "finnhub" ->
            IF r.kind = "ok" THEN Returned(Quote(r.price, r.change, Value("num", r.pct), "now"))
            ELSE Returned(Quote(Zero, Zero, Value("num", Zero), "now"))
      [] client = "polygon" ->
            IF r.kind = "ok" THEN Returned(Quote(r.price, r.change, Value("num", r.pct), "now"))
            ELSE Returned(PlaceholderQuote)
      [] OTHER ->
            IF r.kind = "ok" THEN Returned(Quote(r.price, r.change, Value("str", r.pct), "now"))
            ELSE Returned(PlaceholderQuote)

(* An iteration whose exception leaves the loop                             *)
QuoteOfUncaught(client, r) == QuoteTry(client, r)

(* One iteration of fetch_quotes: the except clause stores the placeholder  *)
QuoteOf(client, r) == Caught(QuoteTry(client, r), PlaceholderQuote)

(* list[:k]                                                                *)
Take(s, k) ==
    LET n == IF k >= 0 THEN (IF k < Len(s) THEN k ELSE Len(s))
             ELSE (IF Len(s) + k > 0 THEN Len(s) + k ELSE 0)
    IN  SubSeq(s, 1, n)

(* The body of the try block of one iteration of fetch_news                 *)
NewsTry(client, r, limit) ==
    IF client # "mock" /\ r.kind \in {"error", "malformed"} THEN Raised(<<>>)
    ELSE Returned(Take(r.articles, limit))

(* One iteration of fetch_news: the except clause stores the empty list     *)
NewsOf(client, r, limit) == Caught(NewsTry(client, r, limit), <<>>)

ClientMarket(client, m) == IF client = "mock" THEN "mock" ELSE m

(* The mapping a batch returns, or the exception that left its loop         *)
Batch(per) ==
    IF \A t \in DOMAIN per : per[t].ok THEN Returned([t \in DOMAIN per |-> per[t].val])
    ELSE Raised(EmptyMap)

(* fetch_quotes(tickers): one entry per requested ticker                    *)
FetchQuotes(client, m, tickers) ==
    Batch([t \in Range(tickers) |-> QuoteOf(client, Response(ClientMarket(client, m), t))])

(* fetch_news(tickers, limit)                                               *)
FetchNews(client, m, tickers, limit) ==
    Batch([t \in Range(tickers) |->
                NewsOf(client, Response(ClientMarket(client, m), t), limit)])

(* holdings['Ticker'].tolist()                                              *)
Tickers(hs) == [i \in DOMAIN hs |-> hs[i].Ticker]

----------------------------------------------------------------------------
(* Valuation and allocation.                                               *)

(* A lookup that takes the quote of one ticker for every holding            *)
PriceOfOneTicker(qs, t) ==
    IF "AB" \in DOMAIN qs THEN qs["AB"].price ELSE Zero

(* self.quotes.get(ticker, {}).get('price', 0)                             *)
PriceOf(qs, t) == IF t \in DOMAIN qs THEN qs[t].price ELSE Zero

(* x / y of Python floats: ZeroDivisionError when y is 0                    *)
PyDiv(x, y) ==
    IF y[1] = 0 THEN [ok |-> FALSE, val |-> Zero] ELSE [ok |-> TRUE, val |-> RDiv(x, y)]

(* The percentage computed without the test of the cost basis              *)
GainLossPctUnguarded(mv, cb) ==
    LET q == PyDiv(mv, cb)
    IN  [ok |-> q.ok, val |-> RMul(RSub(q.val, Num(1)), Num(100))]

(* (row['Market Value'] / row['Cost Basis'] - 1) * 100                      *)
(*     if row['Cost Basis'] > 0 else 0                                       *)
GainLossPct(mv, cb) ==
    IF RPos(cb)
    THEN LET q == PyDiv(mv, cb)
         IN  [ok |-> q.ok, val |-> RMul(RSub(q.val, Num(1)), Num(100))]
    ELSE Returned(Zero)

(* One row of InvestmentPlanner.build_holdings_dataframe                   *)
HoldingRow(h, qs, prov, now) ==
    LET price == PriceOf(qs, h.Ticker)
        mv == RMul(h.Shares, price)
        cb == RMul(h.Shares, h.AvgCost)
        pct == GainLossPct(mv, cb)
    IN  [ok |-> pct.ok,
         row |-> [Ticker |-> h.Ticker, CompanyName |-> h.CompanyName, Shares |-> h.Shares,
                  AvgCost |-> h.AvgCost, Category |-> h.Category,
                  CurrentPrice |-> price, MarketValue |-> mv, CostBasis |-> cb,
                  GainLoss |-> RSub(mv, cb), GainLossPct |-> pct.val,
                  DataSource |-> Title(prov), Timestamp |-> now]]

(* The view made of the rows, or the error one of them raised               *)
Frame(rs) ==
    IF \A i \in DOMAIN rs : rs[i].ok
    THEN [ok |-> TRUE, error |-> "", df |-> [i \in DOMAIN rs |-> rs[i].row]]
    ELSE [ok |-> FALSE, error |-> "ZeroDivisionError", df |-> <<>>]

(* The place of row i of df when the rows are put in descending order of    *)
(* Gain/Loss % by a stable sort: rows of equal percentage keep their order  *)
Place(df, i) ==
    1 + Cardinality({j \in DOMAIN df :
            \/ RLt(df[i].GainLossPct, df[j].GainLossPct)
            \/ df[j].GainLossPct = df[i].GainLossPct /\ j < i})

(* A selection that lets the later of two equal rows go first               *)
NLargestKeepLast(n, df) ==
    [k \in 1..(IF n < Len(df) THEN n ELSE Len(df)) |->
        df[CHOOSE i \in DOMAIN df :
            k = 1 + Cardinality({j \in DOMAIN df :
                    \/ RLt(df[i].GainLossPct, df[j].GainLossPct)
                    \/ df[j].GainLossPct = df[i].GainLossPct /\ j > i})]]

(* holdings_df.nlargest(n, 'Gain/Loss %'), keep='first'                     *)
NLargest(n, df) ==
    LET place == [i \in DOMAIN df |-> Place(df, i)]
    IN  [k \in 1..(IF n < Len(df) THEN n ELSE Len(df)) |->
            df[CHOOSE i \in DOMAIN df : place[i] = k]]

(* InvestmentPlanner.build_holdings_dataframe: the view, or the error raised *)
build_holdings_dataframe(hs, qs, prov, now) ==
    Frame([i \in DOMAIN hs |-> HoldingRow(hs[i], qs, prov, now)])

(* A row whose amount is the product, not divided by 100                   *)
AllocationRowUnscaled(b, c) ==
    [Bucket |-> b.name, AllocationPct |-> b.percentage, BiWeekly |-> RMul(c, b.percentage)]

(* The allocation row of one bucket                                         *)
AllocationRow(b, c) ==
    [Bucket |-> b.name, AllocationPct |-> b.percentage,
     BiWeekly |-> RDiv(RMul(c, b.percentage), Num(100))]

(* The share count computed without the test of the price                  *)
SharesForUnguarded(amount_per_ticker, price) == PyDiv(amount_per_ticker, price)

(* amount_per_ticker / price if price > 0 else 0                            *)
SharesFor(amount_per_ticker, price) ==
    IF RPos(price) THEN PyDiv(amount_per_ticker, price) ELSE Returned(Zero)

(* Every member ticker given the whole amount of its bucket                 *)
AmountPerTickerWhole(bucket_amount, tickers) == bucket_amount

(* bucket_amount / len(tickers)                                             *)
AmountPerTicker(bucket_amount, tickers) == RDiv(bucket_amount, Num(Len(tickers)))

(* The suggested-buy row of one member ticker of a bucket                   *)
BuyRow(b, t, c, qs) ==
    LET bucket_amount == RDiv(RMul(c, b.percentage), Num(100))
        amount_per_ticker == AmountPerTicker(bucket_amount, b.tickers)
        price == PriceOf(qs, t)
        shares == SharesFor(amount_per_ticker, price)
    IN  [ok |-> shares.ok,
         row |-> [Bucket |-> b.name, Ticker |-> t, Price |-> price,
                  Allocation |-> amount_per_ticker, Shares |-> Round4(shares.val)]]

(* A loop that stops after the first member ticker of a bucket             *)
BucketBuysFirstMember(b, c, qs) ==
    IF Len(b.tickers) = 0 THEN <<>>
    ELSE << BuyRow(b, b.tickers[1], c, qs) >>

(* The rows of one bucket: none when the bucket has no tickers              *)
BucketBuys(b, c, qs) ==
    IF Len(b.tickers) = 0 THEN <<>>
    ELSE [i \in DOMAIN b.tickers |-> BuyRow(b, b.tickers[i], c, qs)]

RECURSIVE SuggestedBuys(_, _, _)
SuggestedBuys(bs, c, qs) ==
    IF Len(bs) = 0 THEN <<>>
    ELSE BucketBuys(bs[1], c, qs) \o SuggestedBuys(Tail(bs), c, qs)

(* The two tables, or the error a suggested-buy row raised                  *)
Tables(allocation_data, suggested_buys) ==
    IF \A i \in DOMAIN suggested_buys : suggested_buys[i].ok
    THEN [ok |-> TRUE, error |-> "", allocation |-> allocation_data,
          buys |-> [i \in DOMAIN suggested_buys |-> suggested_buys[i].row]]
    ELSE [ok |-> FALSE, error |-> "ZeroDivisionError", allocation |-> <<>>, buys |-> <<>>]

(* InvestmentPlanner.calculate_biweekly_allocation: the two tables, or the  *)
(* error raised                                                             *)
calculate_biweekly_allocation(c, bs, qs) ==
    Tables([i \in DOMAIN bs |-> AllocationRow(bs[i], c)], SuggestedBuys(bs, c, qs))

----------------------------------------------------------------------------
(* The spreadsheet export. A sheet is a function from the cells written,   *)
(* <<column letter, row>>, to what was written there.                      *)

Letters == <<"A", "B", "C", "D", "E", "F", "G", "H", "I", "J", "K", "L">>

(* The columns of the holdings view, in DataFrame order                    *)
ViewColumns ==
    <<"Ticker", "Company Name", "Shares", "Avg Cost", "Category", "Current Price",
      "Market Value", "Cost Basis", "Gain/Loss $", "Gain/Loss %", "Data Source", "Timestamp">>

Field(row, column) ==
    CASE column = "Ticker" -> row.Ticker
      [] column = "Company Name" -> row.CompanyName
      [] column = "Shares" -> row.Shares
      [] column = "Avg Cost" -> row.AvgCost
      [] column = "Category" -> row.Category
      [] column = "Current Price" -> row.CurrentPrice
      [] column = "Market Value" -> row.MarketValue
      [] column = "Cost Basis" -> row.CostBasis
      [] column = "Gain/Loss $" -> row.GainLoss
      [] column = "Gain/Loss %" -> row.GainLossPct
      [] column = "Data Source" -> row.DataSource
      [] column = "Headline" -> row.Headline
      [] column = "Source" -> row.Source
      [] column = "Published" -> row.Published
      [] column = "URL" -> row.URL
      [] column = "Bucket" -> row.Bucket
      [] column = "Allocation %" -> row.AllocationPct
      [] column = "Bi-Weekly $" -> row.BiWeekly
      [] column = "Price" -> row.Price
      [] column = "$ Allocation" -> row.Allocation
      [] OTHER -> row.Timestamp

SumFormula(col, first, last) == [formula |-> "SUM", col |-> col, first |-> first, last |-> last]

(* DataFrame.to_excel(index=False): the header in row 1, one row per record *)
ToExcel(df, columns) ==
    [k \in {<<Letters[j], r>> : j \in DOMAIN columns, r \in 1..(Len(df) + 1)} |->
        LET j == CHOOSE i \in DOMAIN columns : Letters[i] = k[1]
        IN  IF k[2] = 1 THEN columns[j] ELSE Field(df[k[2] - 1], columns[j])]

(* A summary block whose first total is taken over the cost basis           *)
DashboardSheetOfCost(holdings_df) ==
    (<<"A", 3>> :> "Portfolio Summary") @@
    (<<"A", 4>> :> "Total Market Value:") @@
    (<<"B", 4>> :> RSum([i \in DOMAIN holdings_df |-> holdings_df[i].CostBasis])) @@
    (<<"A", 5>> :> "Total Cost Basis:") @@
    (<<"B", 5>> :> RSum([i \in DOMAIN holdings_df |-> holdings_df[i].CostBasis])) @@
    (<<"A", 6>> :> "Total Gain/Loss:") @@ (<<"B", 6>> :> Zero) @@
    (<<"A", 7>> :> "Total Return %:") @@ (<<"B", 7>> :> Zero)

(* The Portfolio Summary block of InvestmentPlanner._create_dashboard_sheet *)
DashboardSheet(holdings_df) ==
    LET total_market_value == RSum([i \in DOMAIN holdings_df |-> holdings_df[i].MarketValue])
        total_cost_basis == RSum([i \in DOMAIN holdings_df |-> holdings_df[i].CostBasis])
        total_gain_loss == RSub(total_market_value, total_cost_basis)
        total_gain_loss_pct ==
            IF RPos(total_cost_basis)
            THEN RMul(RDiv(total_gain_loss, total_cost_basis), Num(100))
            ELSE Zero
    IN  (<<"A", 3>> :> "Portfolio Summary") @@
        (<<"A", 4>> :> "Total Market Value:") @@ (<<"B", 4>> :> total_market_value) @@
        (<<"A", 5>> :> "Total Cost Basis:") @@ (<<"B", 5>> :> total_cost_basis) @@
        (<<"A", 6>> :> "Total Gain/Loss:") @@ (<<"B", 6>> :> total_gain_loss) @@
        (<<"A", 7>> :> "Total Return %:") @@
        (<<"B", 7>> :> RDiv(total_gain_loss_pct, Num(100)))

(* The TOTALS row of InvestmentPlanner._create_portfolio_sheet              *)
TotalsRow(last_row) ==
    (<<"A", last_row + 1>> :> "TOTALS") @@
    (<<"E", last_row + 1>> :> SumFormula("E", 2, last_row)) @@
    (<<"F", last_row + 1>> :> SumFormula("F", 2, last_row)) @@
    (<<"G", last_row + 1>> :> SumFormula("G", 2, last_row)) @@
    (<<"H", last_row + 1>> :>
        [formula |-> "IF", num |-> "G", den |-> "F", row |-> last_row + 1])

(* InvestmentPlanner._create_portfolio_sheet                                *)
PortfolioSheet(holdings_df) ==
    TotalsRow(Len(holdings_df) + 1) @@ ToExcel(holdings_df, ViewColumns)

(* The sheets laid out by several writers are kept as the list of their    *)
(* writes: which section wrote what into which cell.                       *)
Wr(section, part, col, row, value) ==
    [section |-> section, part |-> part, cell |-> <<col, row>>, value |-> value]

(* The columns of the two allocation tables, in DataFrame order             *)
AllocationColumns == <<"Bucket", "Allocation %", "Bi-Weekly $">>
BuyColumns == <<"Bucket", "Ticker", "Price", "$ Allocation", "Shares">>

(* DataFrame.to_excel(index=False, startrow=startrow): the header in the    *)
(* row after startrow rows, then one row per record; a frame made from an   *)
(* empty list has no columns and writes nothing                             *)
ToExcelAt(section, df, columns, startrow) ==
    IF Len(df) = 0 THEN <<>>
    ELSE [k \in 1..((Len(df) + 1) * Len(columns)) |->
            IF k <= Len(columns)
            THEN Wr(section, "header", Letters[k], startrow + 1, columns[k])
            ELSE Wr(section, "data", Letters[((k - 1) % Len(columns)) + 1],
                    startrow + 1 + ((k - 1) \div Len(columns)),
                    Field(df[(k - 1) \div Len(columns)],
                          columns[((k - 1) % Len(columns)) + 1]))]

(* worksheet.write(row, col, ...) counts rows from 0: the row of the sheet  *)
ZeroBased(row) == row + 1

(* A cross-check whose sums run down to the end of the suggested buys       *)
CheckRowOverTables(last_row, n) ==
    << Wr("check", "header", "A", last_row + 1, "Total Allocation Check:"),
       Wr("check", "data", "B", last_row + 1, SumFormula("B", 2, last_row)),
       Wr("check", "data", "C", last_row + 1, SumFormula("C", 2, last_row)) >>

(* The 'Total Allocation Check:' row of _create_allocation_sheet, n being   *)
(* len(allocation_df)                                                       *)
CheckRow(last_row, n) ==
    << Wr("check", "header", "A", last_row + 1, "Total Allocation Check:"),
       Wr("check", "data", "B", last_row + 1, SumFormula("B", 2, n + 1)),
       Wr("check", "data", "C", last_row + 1, SumFormula("C", 2, n + 1)) >>

(* InvestmentPlanner._create_allocation_sheet                               *)
AllocationSheet(allocation_df, suggested_buys_df) ==
    ToExcelAt("buckets", allocation_df, AllocationColumns, 0) \o
    ToExcelAt("buys", suggested_buys_df, BuyColumns, Len(allocation_df) + 3) \o
    << Wr("label", "header", "A", ZeroBased(Len(allocation_df) + 1), "Suggested Buys") >> \o
    CheckRow(Len(allocation_df) + Len(suggested_buys_df) + 4, Len(allocation_df))

(* merge_range('A1:F1', title): the title in A1, the other cells blank      *)
TitleWrites ==
    [k \in 1..6 |->
        Wr("title", "header", Letters[k], 1,
           IF k = 1 THEN "Investment Portfolio Dashboard" ELSE "")]

(* The cells of the Portfolio Summary block in the order they are written   *)
SummaryCells ==
    << <<"A", 3>>, <<"A", 4>>, <<"B", 4>>, <<"A", 5>>, <<"B", 5>>, <<"A", 6>>, <<"B", 6>>,
       <<"A", 7>>, <<"B", 7>> >>

SummaryWrites(sheet) ==
    [k \in DOMAIN SummaryCells |->
        Wr("summary", IF k = 1 THEN "header" ELSE "data",
           SummaryCells[k][1], SummaryCells[k][2], sheet[SummaryCells[k]])]

(* f'{x:.2f}%': the number as the text of its two-decimal rounding          *)
Percent2f(x) == [format |-> ".2f%", of |-> x]

(* row = 11; for each bucket: A{row}, B{row}, C{row}; row += 1               *)
PlanRows(allocation_df, row) ==
    [k \in 1..(3 * Len(allocation_df)) |->
        CASE (k - 1) % 3 = 0 ->
                Wr("plan", "data", "A", row + (k - 1) \div 3,
                   allocation_df[(k - 1) \div 3 + 1].Bucket)
          [] (k - 1) % 3 = 1 ->
                Wr("plan", "data", "B", row + (k - 1) \div 3,
                   allocation_df[(k - 1) \div 3 + 1].BiWeekly)
          [] OTHER ->
                Wr("plan", "data", "C", row + (k - 1) \div 3,
                   allocation_df[(k - 1) \div 3 + 1].AllocationPct)]

PlanWrites(allocation_df, c) ==
    << Wr("plan", "header", "A", 9, "Bi-Weekly Investment Plan"),
       Wr("plan", "data", "A", 10, c) >> \o PlanRows(allocation_df, 11)

(* if stock['Gain/Loss %'] != 0 and pd.notna(...): the rows that are listed *)
RECURSIVE Listed(_)
Listed(top_performers) ==
    IF Len(top_performers) = 0 THEN <<>>
    ELSE (IF top_performers[1].GainLossPct # Zero THEN << top_performers[1] >> ELSE <<>>)
            \o Listed(Tail(top_performers))

(* row = 16; for each listed stock: A{row}, B{row}; row += 1                 *)
TopRows(listed, row) ==
    [k \in 1..(2 * Len(listed)) |->
        IF (k - 1) % 2 = 0
        THEN Wr("top", "data", "A", row + (k - 1) \div 2, listed[(k - 1) \div 2 + 1].Ticker)
        ELSE Wr("top", "data", "B", row + (k - 1) \div 2,
                Percent2f(listed[(k - 1) \div 2 + 1].GainLossPct))]

TopWrites(top_performers) ==
    << Wr("top", "header", "A", 15, "Top Performers") >> \o TopRows(Listed(top_performers), 16)

(* The number of stored articles: sum(len(articles) for ... in news.values()) *)
ArticleCount(ts, ns) ==
    RSum([i \in DOMAIN ts |-> IF ts[i] \in DOMAIN ns THEN Num(Len(ns[ts[i]])) ELSE Zero])[1]

(* The Data Source Information block; the clock is read again for the      *)
(* 'Last Updated' line                                                      *)
SourceWrites(prov, now, quote_count, article_count) ==
    << Wr("source", "header", "A", 20, "Data Source Information"),
       Wr("source", "data", "A", 21, <<"Provider: ", Title(prov)>>),
       Wr("source", "data", "A", 22, <<"Last Updated: ", now>>),
       Wr("source", "data", "A", 23, <<"Quotes Fetched: ", quote_count>>),
       Wr("source", "data", "A", 24, <<"News Articles: ", article_count>>) >>

(* InvestmentPlanner._create_dashboard_sheet as the list of its writes      *)
DashboardWrites(holdings_df, allocation_df, c, prov, now, quote_count, article_count) ==
    TitleWrites \o SummaryWrites(DashboardSheet(holdings_df))
        \o PlanWrites(allocation_df, c) \o TopWrites(NLargest(3, holdings_df))
        \o SourceWrites(prov, now, quote_count, article_count)

(* dict.items(): the keys of a mapping filled for the tickers ts, in the     *)
(* order they were inserted                                                 *)
RECURSIVE Items(_, _)
Items(ts, map) ==
    IF Len(ts) = 0 THEN <<>>
    ELSE (IF ts[1] \in DOMAIN map THEN << ts[1] >> ELSE <<>>) \o Items(Tail(ts), map)

NewsColumns == <<"Ticker", "Headline", "Source", "Published", "URL">>

(* One row of the news table: the four fields of a stored article           *)
NewsRow(t, article) ==
    [Ticker |-> t, Headline |-> <<article, "headline">>, Source |-> <<article, "source">>,
     Published |-> <<article, "published">>, URL |-> <<article, "url">>]

RECURSIVE NewsData(_, _)
NewsData(ts, ns) ==
    IF Len(ts) = 0 THEN <<>>
    ELSE [i \in DOMAIN ns[ts[1]] |-> NewsRow(ts[1], ns[ts[1]][i])] \o NewsData(Tail(ts), ns)

(* InvestmentPlanner.build_news_dataframe                                   *)
build_news_dataframe(hs, ns) == NewsData(Items(Tickers(hs), ns), ns)

(* row = prices_row + 1; for each quote: A{row} .. D{row}; row += 1          *)
PriceRows(ts, qs, row) ==
    [k \in 1..(4 * Len(ts)) |->
        CASE (k - 1) % 4 = 0 ->
                Wr("prices", "data", "A", row + (k - 1) \div 4, ts[(k - 1) \div 4 + 1])
          [] (k - 1) % 4 = 1 ->
                Wr("prices", "data", "B", row + (k - 1) \div 4, qs[ts[(k - 1) \div 4 + 1]].price)
          [] (k - 1) % 4 = 2 ->
                Wr("prices", "data", "C", row + (k - 1) \div 4, qs[ts[(k - 1) \div 4 + 1]].change)
          [] OTHER ->
                Wr("prices", "data", "D", row + (k - 1) \div 4,
                   Percent2f(qs[ts[(k - 1) \div 4 + 1]].change_percent.val))]

(* row = summary_row + 1; for each bucket: A{row}, B{row}, C{row}; row += 1  *)
BucketRows(bs, row) ==
    [k \in 1..(3 * Len(bs)) |->
        CASE (k - 1) % 3 = 0 ->
                Wr("buckets", "data", "A", row + (k - 1) \div 3, bs[(k - 1) \div 3 + 1].name)
          [] (k - 1) % 3 = 1 ->
                Wr("buckets", "data", "B", row + (k - 1) \div 3, bs[(k - 1) \div 3 + 1].tickers)
          [] OTHER ->
                Wr("buckets", "data", "C", row + (k - 1) \div 3,
                   bs[(k - 1) \div 3 + 1].percentage)]

(* The two headers are written with write(row, 0, ...), rows counted from   *)
(* 0; the rows under them with write('A{row}', ...), rows counted from 1    *)
ResearchBlocks(prices_row, ts, qs, bs) ==
    << Wr("prices", "header", "A", ZeroBased(prices_row), "Current Prices") >>
        \o PriceRows(ts, qs, prices_row + 1)
        \o << Wr("buckets", "header", "A", ZeroBased(prices_row + 1 + Len(ts) + 2),
                 "Investment Buckets") >>
        \o BucketRows(bs, prices_row + 1 + Len(ts) + 2 + 1)

(* InvestmentPlanner._create_research_sheet as the list of its writes       *)
ResearchSheet(news_df, ts, qs, bs) ==
    ToExcelAt("news", news_df, NewsColumns, 0)
        \o ResearchBlocks(Len(news_df) + 3, ts, qs, bs)

(* The Current Prices block of InvestmentPlanner._create_research_sheet     *)
(* formats every change_percent with ':.2f', which raises for a string      *)
ResearchSheetRaises(qs) == \E t \in DOMAIN qs : qs[t].change_percent.type = "str"

NoBook ==
    [dashboard |-> <<>>, dashboard_writes |-> <<>>, portfolio |-> <<>>, allocation |-> <<>>,
     research |-> <<>>]

(* The workbook of the sheets, or the first error raised while writing them *)
Workbook(for_dashboard, for_portfolio, for_allocation, c, hs, qs, ns, bs, prov, now) ==
    IF ~ for_dashboard.ok
    THEN [ok |-> FALSE, error |-> for_dashboard.error, allocation |-> <<>>,
          buys |-> <<>>, book |-> NoBook]
    ELSE IF ~ for_portfolio.ok
    THEN [ok |-> FALSE, error |-> for_portfolio.error, allocation |-> <<>>,
          buys |-> <<>>, book |-> NoBook]
    ELSE IF ~ for_allocation.ok
    THEN [ok |-> FALSE, error |-> for_allocation.error, allocation |-> <<>>,
          buys |-> <<>>, book |-> NoBook]
    ELSE IF ResearchSheetRaises(qs)
    THEN [ok |-> FALSE, error |-> "ValueError: format code", allocation |-> <<>>,
          buys |-> <<>>, book |-> NoBook]
    ELSE [ok |-> TRUE, error |-> "",
          allocation |-> for_allocation.allocation, buys |-> for_allocation.buys,
          book |-> [dashboard |-> DashboardSheet(for_dashboard.df),
                    dashboard_writes |->
                        DashboardWrites(for_dashboard.df, for_allocation.allocation, c, prov,
                                        now, Cardinality(DOMAIN qs),
                                        ArticleCount(Tickers(hs), ns)),
                    portfolio |-> PortfolioSheet(for_portfolio.df),
                    allocation |-> AllocationSheet(for_allocation.allocation,
                                                   for_allocation.buys),
                    research |-> ResearchSheet(build_news_dataframe(hs, ns),
                                               Items(Tickers(hs), qs), qs, bs)]]

(* InvestmentPlanner.create_excel_workbook: each sheet builds its own view; *)
(* the Dashboard and the Allocation sheet each compute the allocation; an   *)
(* error raised while a sheet is written ends the export.                   *)
create_excel_workbook(c, bs, hs, qs, ns, prov, now) ==
    Workbook(build_holdings_dataframe(hs, qs, prov, now),
             build_holdings_dataframe(hs, qs, prov, now),
             calculate_biweekly_allocation(c, bs, qs), c, hs, qs, ns, bs, prov, now)

----------------------------------------------------------------------------
(* Inputs of the requests.                                                 *)

Good(v) == [kind |-> "num", val |-> v]
Bad == [kind |-> "bad", val |-> Zero]
Missing == [kind |-> "missing", val |-> Zero]

(* float(data.get(key, default)): the number, or none when float() raises   *)
Float(x, default) ==
    CASE x.kind = "num" -> [ok |-> TRUE, val |-> x.val]
      [] x.kind = "missing" -> [ok |-> TRUE, val |-> default]
      [] OTHER -> [ok |-> FALSE, val |-> Zero]

ContributionInputs == {Good(Num(-5)), Good(Zero), Good(Num(500)), Bad, Missing}
(* <<shares, avg_cost>> of an update_holding request                        *)
UpdateInputs ==
    {<<Good(Rat(5, 2)), Good(Num(400))>>, <<Good(Rat(5, 2)), Missing>>,
     <<Good(Num(-1)), Good(Num(400))>>, <<Good(Rat(5, 2)), Good(Num(-3))>>,
     <<Bad, Good(Num(400))>>, <<Good(Rat(5, 2)), Bad>>}
(* <<shares, avg_cost>> of an add_holding request                           *)
AddInputs ==
    {<<Good(Rat(5, 2)), Good(Num(400))>>, <<Missing, Good(Num(400))>>,
     <<Bad, Good(Num(400))>>, <<Good(Rat(5, 2)), Bad>>}
UpdateTickers == {"nvda", "ZZZ"}
AddTickers == {"nvda", "vti"}
CliContributions == {Num(1000), Num(-5)}
(* The sets of providers whose API key the environment may hold            *)
KeySets == {{}, {"finnhub"}, {"polygon"}, {"polygon", "alpha"}}
CliProviders == {"finnhub", "polygon", "alpha"}
(* The provider names and configuration files a script may pass to the     *)
(* constructor                                                             *)
ProviderNames == {"finnhub", "polygon", "alpha", "FINNHUB", "Alpha", "yahoo"}
ScriptConfigs == {NoConfigFile, CfgOneBucket, CfgOver}
(* The readings of the clock, as strftime('%Y-%m-%d %H:%M:%S UTC') gives    *)
(* them                                                                    *)
Clock == {"2025-01-01 12:00:00 UTC", "2025-01-01 12:00:01 UTC"}
(* --news-per-ticker, type=int                                              *)
CliNewsPerTicker == {3, 0, -1}

----------------------------------------------------------------------------
(* The session.                                                            *)

(* The threads of the development server (app.run serves each request in    *)
(* its own thread)                                                          *)
Workers == {"w1", "w2"}

(* A thread that holds no request; ticker and status are those of the       *)
(* request it answered last                                                 *)
Idle(t, status) == [at |-> "idle", ticker |-> t, appended |-> <<>>, status |-> status]

(* A reply that carries no data of its own beside the tables                *)
NoData == [kind |-> "none"]

Reply(op, status, error, allocation, buys, view, book) ==
    [op |-> op, status |-> status, error |-> error, allocation |-> allocation,
     buys |-> buys, view |-> view, top |-> <<>>, book |-> book, data |-> NoData]

Plain(op, status, error) == Reply(op, status, error, <<>>, <<>>, <<>>, NoBook)

Current ==
    [ok |-> TRUE, error |-> "", contribution |-> contribution, provider |-> provider,
     news_per_ticker |-> news_per_ticker, buckets |-> buckets, api_client |-> api_client,
     holdings |-> holdings, quotes |-> quotes, news |-> news]

SetSession(p) ==
    /\ planner' = TRUE
    /\ contribution' = p.contribution
    /\ provider' = p.provider
    /\ news_per_ticker' = p.news_per_ticker
    /\ buckets' = p.buckets
    /\ api_client' = p.api_client
    /\ holdings' = p.holdings
    /\ quotes' = p.quotes
    /\ news' = p.news

(* InvestmentPlanner.fetch_market_data: quotes and news are replaced        *)
(* A refresh that keeps the entries the session already has                 *)
FetchedMerging(p, qs, ns) ==
    IF qs.ok /\ ns.ok THEN [p EXCEPT !.quotes = @ @@ qs.val, !.news = @ @@ ns.val]
    ELSE [p EXCEPT !.ok = FALSE, !.error = "fetch_market_data raised"]

(* self.quotes = ...; self.news = ...: an exception of the first call       *)
(* leaves both, an exception of the second leaves the news                  *)
Fetched(p, qs, ns) ==
    IF qs.ok /\ ns.ok THEN [p EXCEPT !.quotes = qs.val, !.news = ns.val]
    ELSE [p EXCEPT !.ok = FALSE, !.error = "fetch_market_data raised",
                   !.quotes = IF qs.ok THEN qs.val ELSE @]

fetch_market_data(p, m) ==
    Fetched(p, FetchQuotes(p.api_client, m, Tickers(p.holdings)),
            FetchNews(p.api_client, m, Tickers(p.holdings), p.news_per_ticker))

(* The planner a fresh session keeps: filled by a first fetch, or none      *)
FirstPlanner(np, m) == IF np.ok THEN fetch_market_data(np, m) ELSE np

(* get_planner of the web application: the global planner, created with the *)
(* defaults and filled by a first fetch when there is none yet              *)
get_planner(m) ==
    IF planner THEN Current
    ELSE FirstPlanner(NewPlanner(Num(1000), "finnhub", 3, NoConfigFile, env), m)

FirstFetch == IF planner THEN {"mock"} ELSE Markets

Init ==
    /\ env \in KeySets
    /\ pc = "start"
    /\ planner = FALSE
    /\ contribution = Zero
    /\ provider = ""
    /\ news_per_ticker = 0
    /\ buckets = <<>>
    /\ api_client = ""
    /\ holdings = <<>>
    /\ quotes = EmptyMap
    /\ news = EmptyMap
    /\ requests = [w \in Workers |-> Idle("", 0)]
    /\ out = Plain("", 0, "")

(* A web request whose handler may be interrupted by another request        *)
Threaded == pc \in {"start", "web"} /\ pc' = "web" /\ UNCHANGED env

(* A web request handled from its first line to its reply: the handler body *)
(* runs on the planner get_planner returns                                  *)
Web == Threaded /\ UNCHANGED requests

(* get_planner returned None: no planner could be constructed, or the       *)
(* first fetch of the planner just stored in the global raised              *)
NotInitialised(p, op, status) ==
    /\ IF p.error = "fetch_market_data raised" THEN SetSession(p) ELSE UNCHANGED session
    /\ out' = Plain(op, status, "Planner not initialized")

NoView == [ok |-> TRUE, error |-> "", df |-> <<>>]
NoTables == [ok |-> TRUE, error |-> "", allocation |-> <<>>, buys |-> <<>>]

(* The page rendered from a view and the allocation tables, or the error    *)
(* page for the exception the handler caught                                *)
Page(op, v, a) ==
    IF ~ v.ok THEN Plain(op, 200, v.error)
    ELSE IF ~ a.ok THEN Plain(op, 200, a.error)
    ELSE Reply(op, 200, "", a.allocation, a.buys, v.df, NoBook)

(* top_performers = holdings_df.nlargest(3, 'Gain/Loss %') of the page      *)
TopPerformers(page) == [page EXCEPT !.top = NLargest(3, page.view)]

Dashboard(p, now) ==
    IF ~ p.ok THEN NotInitialised(p, "dashboard", 200)
    ELSE /\ SetSession(p)
         /\ out' = TopPerformers(
                Page("dashboard",
                     build_holdings_dataframe(p.holdings, p.quotes, p.provider, now),
                     calculate_biweekly_allocation(p.contribution, p.buckets, p.quotes)))

(* GET /                                                                    *)
dashboard(m, now) == Web /\ Dashboard(get_planner(m), now)

Portfolio(p, now) ==
    IF ~ p.ok THEN NotInitialised(p, "portfolio", 200)
    ELSE /\ SetSession(p)
         /\ out' = Page("portfolio",
                        build_holdings_dataframe(p.holdings, p.quotes, p.provider, now), NoTables)

(* GET /portfolio                                                           *)
portfolio(m, now) == Web /\ Portfolio(get_planner(m), now)

(* An allocation page that takes the last ticker out of the first bucket    *)
AllocationConsuming(p) ==
    IF ~ p.ok THEN NotInitialised(p, "allocation", 200)
    ELSE /\ SetSession([p EXCEPT !.buckets[1].tickers = Take(@, Len(@) - 1)])
         /\ out' = Page("allocation", NoView,
                        calculate_biweekly_allocation(p.contribution, p.buckets, p.quotes))

Allocation(p) ==
    IF ~ p.ok THEN NotInitialised(p, "allocation", 200)
    ELSE /\ SetSession(p)
         /\ out' = Page("allocation", NoView,
                        calculate_biweekly_allocation(p.contribution, p.buckets, p.quotes))

(* GET /allocation                                                          *)
allocation(m) == Web /\ Allocation(get_planner(m))

(* The research page: the news table, the quotes and the tickers held       *)
Research(p) ==
    IF ~ p.ok THEN NotInitialised(p, "research", 200)
    ELSE /\ SetSession(p)
         /\ out' = [Plain("research", 200, "") EXCEPT
                        !.data = [kind |-> "research",
                                  news |-> build_news_dataframe(p.holdings, p.news),
                                  quotes |-> p.quotes,
                                  holdings |-> Tickers(p.holdings)]]

(* GET /research                                                            *)
research(m) == Web /\ Research(get_planner(m))

StockTickers == {"nvda", "ZZZ"}

(* dict.get(key, default)                                                   *)
Get(map, key, default) == IF key \in DOMAIN map THEN map[key] ELSE default

(* A handler that keeps the quote it fetched in the session                 *)
StockInfoStoring(p, t, fetched_quotes, fetched_news) ==
    IF ~ fetched_quotes.ok \/ ~ fetched_news.ok
    THEN SetSession(p) /\ out' = Plain("get_stock_info", 500, "fetch raised")
    ELSE /\ SetSession([p EXCEPT !.quotes = fetched_quotes.val @@ @])
         /\ out' = [Plain("get_stock_info", 200, "") EXCEPT
                        !.data = [kind |-> "stock_info", ticker |-> t,
                                  quote |-> Get(fetched_quotes.val, t, EmptyMap),
                                  news |-> Get(fetched_news.val, t, <<>>)]]

(* The answer made of what was fetched for the ticker; the session keeps    *)
(* none of it                                                               *)
StockInfo(p, t, fetched_quotes, fetched_news) ==
    IF ~ fetched_quotes.ok \/ ~ fetched_news.ok
    THEN SetSession(p) /\ out' = Plain("get_stock_info", 500, "fetch raised")
    ELSE /\ SetSession(p)
         /\ out' = [Plain("get_stock_info", 200, "") EXCEPT
                        !.data = [kind |-> "stock_info", ticker |-> t,
                                  quote |-> Get(fetched_quotes.val, t, EmptyMap),
                                  news |-> Get(fetched_news.val, t, <<>>)]]

GetStockInfo(p, t, m2) ==
    IF ~ p.ok THEN NotInitialised(p, "get_stock_info", 500)
    ELSE StockInfo(p, t, FetchQuotes(p.api_client, m2, <<t>>),
                   FetchNews(p.api_client, m2, <<t>>, 5))

(* GET /api/stock_info/<ticker>                                             *)
get_stock_info(t, m, m2) == Web /\ GetStockInfo(get_planner(m), Upper(t), m2)

(* A handler that only rejects contributions below zero                    *)
UpdateContributionFromZero(p, new_contribution) ==
    IF ~ p.ok THEN NotInitialised(p, "update_contribution", 500)
    ELSE IF ~ new_contribution.ok
         THEN SetSession(p) /\ out' = Plain("update_contribution", 500, "ValueError")
    ELSE IF RLt(new_contribution.val, Zero)
         THEN /\ SetSession(p)
              /\ out' = Plain("update_contribution", 400, "Contribution must be positive")
    ELSE /\ SetSession([p EXCEPT !.contribution = new_contribution.val])
         /\ out' = Plain("update_contribution", 200, "")

UpdateContribution(p, new_contribution) ==
    IF ~ p.ok THEN NotInitialised(p, "update_contribution", 500)
    ELSE IF ~ new_contribution.ok
         THEN SetSession(p) /\ out' = Plain("update_contribution", 500, "ValueError")
    ELSE IF RLe(new_contribution.val, Zero)
         THEN /\ SetSession(p)
              /\ out' = Plain("update_contribution", 400, "Contribution must be positive")
    ELSE /\ SetSession([p EXCEPT !.contribution = new_contribution.val])
         /\ out' = Plain("update_contribution", 200, "")

(* POST /api/update_contribution                                            *)
update_contribution(v, m) == Web /\ UpdateContribution(get_planner(m), Float(v, Num(1000)))

(* planner.holdings.loc[mask, 'Shares'] = shares                            *)
SetShares(hs, ticker, shares) ==
    [i \in DOMAIN hs |->
        IF hs[i].Ticker = ticker THEN [hs[i] EXCEPT !.Shares = shares] ELSE hs[i]]

(* planner.holdings.loc[mask, 'Avg Cost'] = avg_cost                        *)
SetAvgCost(hs, ticker, avg_cost) ==
    [i \in DOMAIN hs |->
        IF hs[i].Ticker = ticker THEN [hs[i] EXCEPT !.AvgCost = avg_cost] ELSE hs[i]]

(* A handler that stores the shares before it parses the average cost       *)
UpdateHoldingStepwise(p, ticker, shares, avg_cost) ==
    IF ~ p.ok THEN NotInitialised(p, "update_holding", 500)
    ELSE IF ~ shares.ok
         THEN SetSession(p) /\ out' = Plain("update_holding", 500, "ValueError")
    ELSE IF ticker \notin Range(Tickers(p.holdings))
         THEN SetSession(p) /\ out' = Plain("update_holding", 404, "Ticker not found")
    ELSE IF ~ avg_cost.ok
         THEN /\ SetSession([p EXCEPT !.holdings = SetShares(p.holdings, ticker, shares.val)])
              /\ out' = Plain("update_holding", 500, "ValueError")
    ELSE /\ SetSession([p EXCEPT !.holdings =
                SetAvgCost(SetShares(p.holdings, ticker, shares.val), ticker, avg_cost.val)])
         /\ out' = Plain("update_holding", 200, "")

UpdateHolding(p, ticker, shares, avg_cost) ==
    IF ~ p.ok THEN NotInitialised(p, "update_holding", 500)
    ELSE IF ~ shares.ok \/ ~ avg_cost.ok
         THEN SetSession(p) /\ out' = Plain("update_holding", 500, "ValueError")
    ELSE IF ticker \in Range(Tickers(p.holdings))
         THEN /\ SetSession([p EXCEPT !.holdings =
                    SetAvgCost(SetShares(p.holdings, ticker, shares.val), ticker, avg_cost.val)])
              /\ out' = Plain("update_holding", 200, "")
    ELSE /\ SetSession(p)
         /\ out' = Plain("update_holding", 404, "Ticker not found")

(* POST /api/update_holding                                                 *)
update_holding(t, sh, ac, m) ==
    Web /\ UpdateHolding(get_planner(m), Upper(t), Float(sh, Zero), Float(ac, Zero))

(* An update that keeps only the entries just fetched                       *)
UpdatedOnly(qs, fetched) == IF fetched.ok THEN fetched.val ELSE qs

(* planner_instance.quotes.update(quotes), skipped when the fetch raised     *)
Updated(qs, fetched) == IF fetched.ok THEN fetched.val @@ qs ELSE qs

(* A handler that compares the ticker as it was sent, before upper-casing   *)
AddHoldingAsSent(p, t, shares, avg_cost, m2) ==
    IF ~ p.ok THEN NotInitialised(p, "add_holding", 500)
    ELSE IF ~ shares.ok \/ ~ avg_cost.ok
         THEN SetSession(p) /\ out' = Plain("add_holding", 500, "ValueError")
    ELSE IF t \in Range(Tickers(p.holdings))
         THEN /\ SetSession(p)
              /\ out' = Plain("add_holding", 400, "Ticker already exists")
    ELSE /\ SetSession([p EXCEPT
                !.holdings = Append(p.holdings,
                                    H(Upper(t), "New Company", shares.val, avg_cost.val, "Growth")),
                !.quotes = Updated(p.quotes, FetchQuotes(p.api_client, m2, <<Upper(t)>>))])
         /\ out' = Plain("add_holding", 200, "")

(* A handler without the test for an existing ticker                        *)
AddHoldingUnchecked(p, t, shares, avg_cost, m2) ==
    IF ~ p.ok THEN NotInitialised(p, "add_holding", 500)
    ELSE IF ~ shares.ok \/ ~ avg_cost.ok
         THEN SetSession(p) /\ out' = Plain("add_holding", 500, "ValueError")
    ELSE /\ SetSession([p EXCEPT
                !.holdings = Append(p.holdings,
                                    H(Upper(t), "New Company", shares.val, avg_cost.val, "Growth")),
                !.quotes = Updated(p.quotes, FetchQuotes(p.api_client, m2, <<Upper(t)>>))])
         /\ out' = Plain("add_holding", 200, "")

(* DataFrame.append is the pandas 1.x method the handler calls: it returns  *)
(* the list with the new row at its end.                                    *)
AddHolding(p, t, shares, avg_cost, m2) ==
    IF ~ p.ok THEN NotInitialised(p, "add_holding", 500)
    ELSE IF ~ shares.ok \/ ~ avg_cost.ok
         THEN SetSession(p) /\ out' = Plain("add_holding", 500, "ValueError")
    ELSE IF Upper(t) \in Range(Tickers(p.holdings))
         THEN /\ SetSession(p)
              /\ out' = Plain("add_holding", 400, "Ticker already exists")
    ELSE /\ SetSession([p EXCEPT
                !.holdings = Append(p.holdings,
                                    H(Upper(t), "New Company", shares.val, avg_cost.val, "Growth")),
                !.quotes = Updated(p.quotes, FetchQuotes(p.api_client, m2, <<Upper(t)>>))])
         /\ out' = Plain("add_holding", 200, "")

(* POST /api/add_holding                                                    *)
add_holding(t, sh, ac, m, m2) ==
    Web /\ AddHolding(get_planner(m), t, Float(sh, Zero), Float(ac, Zero), m2)

(* add_holding as the interpreter runs it when requests are served by       *)
(* threads: a thread may be suspended between any two steps.                *)
ConcurrentTickers == {"vti", "voo"}
ConcurrentInputs == {<<Good(Rat(5, 2)), Good(Num(400))>>, <<Bad, Good(Num(400))>>}

(* The thread has evaluated holdings.append(new_holding): it holds the copy *)
(* and has not assigned it yet                                              *)
Appending(t, hs, row) ==
    [at |-> "assign", ticker |-> t, appended |-> Append(hs, row), status |-> 0]

AddHoldingRead(p, w, t, shares, avg_cost) ==
    IF ~ p.ok
    THEN /\ NotInitialised(p, "add_holding", 500)
         /\ requests' = [requests EXCEPT ![w] = Idle(Upper(t), 500)]
    ELSE IF ~ shares.ok \/ ~ avg_cost.ok
         THEN /\ SetSession(p)
              /\ out' = Plain("add_holding", 500, "ValueError")
              /\ requests' = [requests EXCEPT ![w] = Idle(Upper(t), 500)]
    ELSE IF Upper(t) \in Range(Tickers(p.holdings))
         THEN /\ SetSession(p)
              /\ out' = Plain("add_holding", 400, "Ticker already exists")
              /\ requests' = [requests EXCEPT ![w] = Idle(Upper(t), 400)]
    ELSE /\ SetSession(p)
         /\ UNCHANGED out
         /\ requests' = [requests EXCEPT ![w] =
                Appending(Upper(t), p.holdings,
                          H(Upper(t), "New Company", shares.val, avg_cost.val, "Growth"))]

(* The handler up to the right-hand side of the assignment of the list      *)
add_holding_read(w, t, sh, ac, m) ==
    /\ Threaded
    /\ requests[w].at = "idle"
    /\ AddHoldingRead(get_planner(m), w, t, Float(sh, Zero), Float(ac, Zero))

(* An assignment that appends the new row to the list as it is now          *)
AssignedToCurrent(current, appended) == Append(current, appended[Len(appended)])

(* planner_instance.holdings = <the copy>: the attribute is rebound to the  *)
(* copy, whatever the list is by now                                        *)
Assigned(current, appended) == appended

add_holding_assign(w) ==
    /\ Threaded
    /\ requests[w].at = "assign"
    /\ holdings' = Assigned(holdings, requests[w].appended)
    /\ requests' = [requests EXCEPT ![w].at = "fetch"]
    /\ UNCHANGED <<planner, contribution, provider, buckets, quotes, news,
                   news_per_ticker, api_client, out>>

(* The quote of the new ticker is fetched and merged, and the request is    *)
(* answered                                                                 *)
add_holding_answer(w, m2) ==
    /\ Threaded
    /\ requests[w].at = "fetch"
    /\ quotes' = Updated(quotes, FetchQuotes(api_client, m2, <<requests[w].ticker>>))
    /\ requests' = [requests EXCEPT ![w] = Idle(requests[w].ticker, 200)]
    /\ out' = Plain("add_holding", 200, "")
    /\ UNCHANGED <<planner, contribution, provider, buckets, holdings, news,
                   news_per_ticker, api_client>>

(* What the caller gets for the workbook, or for the error writing it raised *)
BookReply(op, failed, done, w) ==
    IF ~ w.ok THEN Plain(op, failed, w.error)
    ELSE Reply(op, done, "", w.allocation, w.buys, <<>>, w.book)

(* planner.create_excel_workbook(filename) on the planner p                 *)
Export(op, failed, done, p, now) ==
    /\ SetSession(p)
    /\ out' = BookReply(op, failed, done,
                        create_excel_workbook(p.contribution, p.buckets, p.holdings,
                                              p.quotes, p.news, p.provider, now))

ExportExcel(p, now) ==
    IF ~ p.ok THEN NotInitialised(p, "export_excel", 500)
    ELSE Export("export_excel", 500, 200, p, now)

(* GET /api/export_excel                                                    *)
export_excel(m, now) == Web /\ ExportExcel(get_planner(m), now)

Refreshed(f) ==
    /\ SetSession(f)
    /\ out' = IF f.ok THEN Plain("refresh_data", 200, "")
              ELSE Plain("refresh_data", 500, f.error)

RefreshData(p, m2) ==
    IF ~ p.ok THEN NotInitialised(p, "refresh_data", 500)
    ELSE Refreshed(fetch_market_data(p, m2))

(* GET /api/refresh_data                                                    *)
refresh_data(m, m2) == Web /\ RefreshData(get_planner(m), m2)

(* The body of main() once the planner is constructed or has raised         *)
Failed(e) == UNCHANGED session /\ out' = Plain("main", 1, e)

Ran(f, now) == IF ~ f.ok THEN Failed(f.error) ELSE Export("main", 1, 0, f, now)

Run(np, m, now) ==
    IF ~ np.ok THEN Failed(np.error) ELSE Ran(fetch_market_data(np, m), now)

(* main() of invest_plan.py: construct, fetch, export, exit                 *)
main(c, prov, npt, config_file, m, now) ==
    /\ pc = "start"
    /\ pc' = "exited"
    /\ UNCHANGED <<env, requests>>
    /\ Run(NewPlanner(c, prov, npt, config_file, env), m, now)

(* A script that uses the class, as test_planner.py does: the constructor   *)
(* call, whose exception ends the script                                    *)
Constructed(np) ==
    IF np.ok THEN SetSession(np) /\ pc' = "script" /\ out' = Plain("InvestmentPlanner", 0, "")
    ELSE /\ UNCHANGED session
         /\ pc' = "exited"
         /\ out' = Plain("InvestmentPlanner", 1, np.error)

(* InvestmentPlanner(contribution, provider, news_per_ticker, config_file)  *)
InvestmentPlanner(c, prov, npt, config_file) ==
    /\ pc = "start"
    /\ UNCHANGED <<env, requests>>
    /\ Constructed(NewPlanner(c, prov, npt, config_file, env))

(* planner.build_holdings_dataframe() called by the script                  *)
build_view(now) ==
    /\ pc = "script"
    /\ UNCHANGED <<env, pc, session, requests>>
    /\ out' = Page("build_holdings_dataframe",
                   build_holdings_dataframe(holdings, quotes, provider, now), NoTables)

(* The sample positions the harness writes into the holdings                *)
SampleHoldings(hs) ==
    SetAvgCost(SetShares(
        SetAvgCost(SetShares(
            SetAvgCost(SetShares(hs, "NVDA", Rat(5, 2)), "NVDA", Num(400)),
            "MSFT", Num(5)), "MSFT", Num(350)),
        "AAPL", Num(10)), "AAPL", Num(150))

(* The harness after the constructor returned or raised: the client is      *)
(* replaced, the sample positions are set, the data are fetched, the views  *)
(* are built and the workbook is written                                    *)
Tested(np, now) ==
    IF ~ np.ok
    THEN UNCHANGED session /\ out' = Plain("test_investment_planner", 1, np.error)
    ELSE Export("test_investment_planner", 1, 0,
                fetch_market_data([np EXCEPT !.api_client = "mock",
                                              !.holdings = SampleHoldings(@)], "mock"),
                now)

(* test_investment_planner of test_planner.py                               *)
test_investment_planner(now) ==
    /\ pc = "start"
    /\ pc' = "exited"
    /\ UNCHANGED <<env, requests>>
    /\ Tested(NewPlanner(Num(1000), "finnhub", 3, NoConfigFile, env), now)

Next ==
    \/ \E m \in FirstFetch, now \in Clock : dashboard(m, now)
    \/ \E m \in FirstFetch, now \in Clock : portfolio(m, now)
    \/ \E m \in FirstFetch : allocation(m)
    \/ \E m \in FirstFetch : research(m)
    \/ \E t \in StockTickers, m \in FirstFetch, m2 \in Markets : get_stock_info(t, m, m2)
    \/ \E m \in FirstFetch, now \in Clock : export_excel(m, now)
    \/ \E v \in ContributionInputs, m \in FirstFetch : update_contribution(v, m)
    \/ \E t \in UpdateTickers, x \in UpdateInputs, m \in FirstFetch :
            update_holding(t, x[1], x[2], m)
    \/ \E t \in AddTickers, x \in AddInputs, m \in FirstFetch, m2 \in Markets :
            add_holding(t, x[1], x[2], m, m2)
    \/ \E m \in FirstFetch, m2 \in Markets : refresh_data(m, m2)
    \/ \E c \in CliContributions, prov \in CliProviders, npt \in CliNewsPerTicker,
          config_file \in ConfigFiles, m \in Markets, now \in Clock :
            main(c, prov, npt, config_file, m, now)
    \/ \E c \in CliContributions, prov \in ProviderNames, npt \in CliNewsPerTicker,
          config_file \in ScriptConfigs :
            InvestmentPlanner(c, prov, npt, config_file)
    \/ \E now \in Clock : test_investment_planner(now)
    \/ \E now \in Clock : build_view(now)

Spec == Init /\ [][Next]_vars

(* The web application under concurrent add_holding requests: the steps of  *)
(* the requests of the two threads interleave                               *)
NextConcurrent ==
    \/ \E w \in Workers, t \in ConcurrentTickers, x \in ConcurrentInputs, m \in FirstFetch :
            add_holding_read(w, t, x[1], x[2], m)
    \/ \E w \in Workers : add_holding_assign(w)
    \/ \E w \in Workers, m2 \in Markets : add_holding_answer(w, m2)

SpecConcurrent == Init /\ [][NextConcurrent]_vars

----------------------------------------------------------------------------
(* Properties.                                                             *)

(* The operations that compute the allocation tables                       *)
CalcOps == {"dashboard", "allocation", "export_excel", "main"}
(* The operations that build the holdings view                             *)
ViewOps == {"dashboard", "portfolio", "export_excel", "main"}

(* The last operation computed the allocation tables from the session      *)
CalcDone == planner /\ out.op \in CalcOps /\ out.error = ""

(* The sum of the percentages of bs is within 0.01 of 100                   *)
SumsTo100(bs) ==
    LET d == RSub(RSum([i \in DOMAIN bs |-> bs[i].percentage]), Num(100))
    IN  100 * Abs(d[1]) <= d[2]

(* C1: a planner exists only with bucket percentages that sum to 100 within *)
(* 0.01, and a construction from a configuration whose merged buckets sum   *)
(* to anything else raises a validation error and leaves no planner.        *)
C1_ConstructionValidatesPercentages ==
    /\ [](planner => SumsTo100(buckets))
    /\ [][\A c \in CliContributions, prov \in CliProviders, npt \in CliNewsPerTicker,
             config_file \in ConfigFiles, m \in Markets, now \in Clock :
                (out'.op = "main" /\ ~ SumsTo100(MergedBuckets(config_file))
                    /\ main(c, prov, npt, config_file, m, now))
                    => (~ planner' /\ out'.status = 1 /\ out'.error = "ValueError: percentages")]_vars

(* A construction was refused for its percentages and left no planner       *)
C1_Witness ==
    out.op = "main" /\ out.status = 1 /\ out.error = "ValueError: percentages" /\ ~ planner

(* s is x rounded to 4 decimal places                                      *)
IsRounded4(s, x) == 10000 % s[2] = 0 /\ RLe(RAbs(RSub(s, x)), Rat(1, 20000))

QuotedPrice(t) == IF t \in DOMAIN quotes THEN quotes[t].price ELSE Zero

MemberCount == RSum([i \in DOMAIN buckets |-> Num(Len(buckets[i].tickers))])[1]

OneBucketScenario ==
    /\ contribution = Num(1000)
    /\ buckets = << [name |-> "A", percentage |-> Num(100), tickers |-> <<"NVDA", "UNH">>] >>
    /\ QuotedPrice("NVDA") = Num(100)
    /\ QuotedPrice("UNH") = Zero

OneBucketBuys ==
    << [Bucket |-> "A", Ticker |-> "NVDA", Price |-> Num(100), Allocation |-> Num(500),
        Shares |-> Num(5)],
       [Bucket |-> "A", Ticker |-> "UNH", Price |-> Zero, Allocation |-> Num(500),
        Shares |-> Zero] >>

(* C2: each bucket's amount is contribution * percentage / 100; each member *)
(* ticker of a bucket gets that amount divided by the member count, and a   *)
(* share count of its dollar share / price rounded to 4 decimal places; with *)
(* contribution 1000 and one bucket of 100% holding a ticker priced 100 and *)
(* one priced 0, each gets 500, 5.0 shares of the first and 0 of the second. *)
C2_AllocationArithmetic ==
    CalcDone =>
        /\ Len(out.allocation) = Len(buckets)
        /\ \A i \in DOMAIN buckets :
                /\ out.allocation[i].Bucket = buckets[i].name
                /\ RMul(out.allocation[i].BiWeekly, Num(100))
                        = RMul(contribution, buckets[i].percentage)
        /\ Len(out.buys) = MemberCount
        /\ \A k \in DOMAIN out.buys :
                LET r == out.buys[k]
                IN  /\ \E i \in DOMAIN buckets :
                            /\ buckets[i].name = r.Bucket
                            /\ r.Ticker \in Range(buckets[i].tickers)
                            /\ RMul(r.Allocation, Num(100 * Len(buckets[i].tickers)))
                                    = RMul(contribution, buckets[i].percentage)
                    /\ r.Price = QuotedPrice(r.Ticker)
                    /\ RPos(r.Price) => IsRounded4(r.Shares, RDiv(r.Allocation, r.Price))
        /\ OneBucketScenario => out.buys = OneBucketBuys

(* The scenario of C2 was computed, and a share count was rounded           *)
C2_Witness == CalcDone /\ OneBucketScenario /\ out.buys = OneBucketBuys

(* C3: a ticker whose price is 0, for lack of a quote entry or by a         *)
(* placeholder quote, gets 0 suggested shares, and the computation raises   *)
(* no division error.                                                       *)
C3_ZeroPriceZeroShares ==
    (planner /\ out.op \in CalcOps) =>
        /\ out.error # "ZeroDivisionError"
        /\ out.error = "" =>
                \A k \in DOMAIN out.buys :
                    QuotedPrice(out.buys[k].Ticker) = Zero
                        => out.buys[k].Price = Zero /\ out.buys[k].Shares = Zero

(* Tables with a ticker that has no quote entry and one with a price of 0   *)
C3_Witness ==
    /\ CalcDone
    /\ \E k \in DOMAIN out.buys :
            out.buys[k].Ticker \notin DOMAIN quotes /\ out.buys[k].Shares = Zero
    /\ \E k \in DOMAIN out.buys :
            /\ out.buys[k].Ticker \in DOMAIN quotes
            /\ quotes[out.buys[k].Ticker].price = Zero
            /\ out.buys[k].Shares = Zero
            /\ RPos(out.buys[k].Allocation)

(* The rows of the holdings view the last operation built                   *)
ViewRows ==
    IF out.op \in {"dashboard", "portfolio"} THEN out.view
    ELSE [i \in 1..(Len(holdings)) |->
            [CostBasis |-> out.book.portfolio[<<"H", i + 1>>],
             MarketValue |-> out.book.portfolio[<<"G", i + 1>>],
             GainLossPct |-> out.book.portfolio[<<"J", i + 1>>]]]

(* C4: in the holdings view a holding whose cost basis (shares * average    *)
(* cost) is 0 has gain/loss % exactly 0, one whose cost basis is positive   *)
(* has (market value / cost basis - 1) * 100, and no holdings reached by    *)
(* add_holding and update_holding make the computation fail.                *)
C4_GainLossPct ==
    (planner /\ out.op \in ViewOps) =>
        /\ out.error # "ZeroDivisionError"
        /\ out.error = "" =>
                /\ Len(ViewRows) = Len(holdings)
                /\ \A i \in DOMAIN holdings :
                        LET r == ViewRows[i]
                        IN  /\ r.CostBasis = RMul(holdings[i].Shares, holdings[i].AvgCost)
                            /\ r.CostBasis = Zero => r.GainLossPct = Zero
                            /\ RPos(r.CostBasis) =>
                                    RMul(r.GainLossPct, r.CostBasis)
                                        = RMul(RSub(r.MarketValue, r.CostBasis), Num(100))

(* A view after an update to shares at no cost and an insert at a cost      *)
C4_Witness ==
    /\ planner /\ out.op = "portfolio" /\ out.error = ""
    /\ \E i \in DOMAIN out.view :
            /\ RPos(holdings[i].Shares) /\ holdings[i].AvgCost = Zero
            /\ RPos(out.view[i].MarketValue) /\ out.view[i].GainLossPct = Zero
    /\ \E i \in DOMAIN out.view :
            /\ i > Len(InitialHoldings)
            /\ RPos(out.view[i].CostBasis) /\ out.view[i].GainLossPct # Zero

(* C5: an allocation computed again with no change in between gives the     *)
(* same rows, and computing it changes none of the contribution, the        *)
(* buckets, the quotes, the news and the holdings.                          *)
C5_AllocationRepeatable ==
    [][\A m \in Markets :
            (planner /\ out'.op = "allocation" /\ allocation(m)) =>
                /\ UNCHANGED <<contribution, buckets, quotes, news, holdings>>
                /\ (out.op = "allocation" /\ out.error = "") =>
                        (out'.allocation = out.allocation /\ out'.buys = out.buys)]_vars

(* An allocation computed in a session whose contribution was changed       *)
C5_Witness ==
    /\ CalcDone /\ out.op = "allocation"
    /\ contribution = Num(500) /\ Len(out.buys) = MemberCount /\ MemberCount > 0

(* The last operation wrote the workbook                                    *)
ExportDone == planner /\ out.op \in {"export_excel", "main"} /\ out.error = ""

(* The letter of the column of sheet whose header cell holds title          *)
ColumnOf(sheet, title) == CHOOSE l \in Range(Letters) : sheet[<<l, 1>>] = title

(* The cells of a column of the Portfolio sheet, one per holding            *)
ColumnCells(sheet, l) == [i \in 1..Len(holdings) |-> sheet[<<l, i + 1>>]]

(* C6: the total market value on the Dashboard sheet equals the sum of the  *)
(* Market Value cells of the Portfolio sheet of the same workbook.          *)
C6_DashboardTotalMatchesPortfolio ==
    ExportDone =>
        /\ out.book.dashboard[<<"A", 4>>] = "Total Market Value:"
        /\ out.book.dashboard[<<"B", 4>>]
                = RSum(ColumnCells(out.book.portfolio,
                                   ColumnOf(out.book.portfolio, "Market Value")))

(* A workbook of a portfolio whose market value and cost basis differ       *)
C6_Witness ==
    /\ ExportDone
    /\ RPos(out.book.dashboard[<<"B", 4>>])
    /\ out.book.dashboard[<<"B", 4>>]
            # RSum(ColumnCells(out.book.portfolio, ColumnOf(out.book.portfolio, "Cost Basis")))

(* C7: the TOTALS row of the Portfolio sheet holds a total of the market    *)
(* value, of the cost basis and of the gain/loss, each a sum over the       *)
(* column that holds that quantity.                                         *)
C7_TotalsOverOwnColumns ==
    ExportDone =>
        \A title \in {"Market Value", "Cost Basis", "Gain/Loss $"} :
            LET l == ColumnOf(out.book.portfolio, title)
                totals == Len(holdings) + 2
            IN  /\ <<l, totals>> \in DOMAIN out.book.portfolio
                /\ out.book.portfolio[<<l, totals>>] = SumFormula(l, 2, Len(holdings) + 1)

(* C8: an add_holding request whose upper-cased ticker is already held is   *)
(* rejected with an error and changes none of the holdings, the quotes, the *)
(* news and the contribution.                                               *)
C8_DuplicateAddRejected ==
    [][\A t \in AddTickers, x \in AddInputs, m \in Markets, m2 \in Markets :
            (/\ planner /\ out'.op = "add_holding"
             /\ \E i \in DOMAIN holdings : holdings[i].Ticker = Upper(t)
             /\ add_holding(t, x[1], x[2], m, m2))
                => /\ out'.status \in {400, 500} /\ out'.error # ""
                   /\ UNCHANGED <<holdings, quotes, news, contribution>>]_vars

(* A duplicate was refused in a session that holds an added ticker          *)
C8_Witness ==
    /\ planner /\ out.op = "add_holding" /\ out.status = 400
    /\ Len(holdings) = Len(InitialHoldings) + 1

(* C9: an update_contribution request with a value of 0 or less is rejected *)
(* with an error and the contribution keeps its value; a request with a     *)
(* value above 0 sets the contribution to exactly that value.               *)
C9_ContributionUpdate ==
    [][\A v \in ContributionInputs, m \in Markets :
            (/\ planner /\ out'.op = "update_contribution" /\ v.kind = "num"
             /\ update_contribution(v, m))
                => IF RLe(v.val, Zero)
                   THEN out'.status = 400 /\ out'.error # "" /\ contribution' = contribution
                   ELSE out'.status = 200 /\ out'.error = "" /\ contribution' = v.val]_vars

(* A contribution set by a request has survived a rejected one              *)
C9_Witness ==
    planner /\ out.op = "update_contribution" /\ out.status = 400 /\ contribution = Num(500)

(* The number a request field stands for: an absent field stands for 0      *)
Requested(x) == IF x.kind = "num" THEN x.val ELSE Zero
Malformed(x) == x[1].kind = "bad" \/ x[2].kind = "bad"
Held(t) == \E i \in DOMAIN holdings : holdings[i].Ticker = Upper(t)

(* The rows of ticker t hold the requested shares and average cost, the     *)
(* other rows are as before                                                 *)
BothSet(t, x) ==
    /\ Len(holdings') = Len(holdings)
    /\ \A i \in DOMAIN holdings :
            IF holdings[i].Ticker = Upper(t)
            THEN holdings'[i] = [holdings[i] EXCEPT !.Shares = Requested(x[1]),
                                                    !.AvgCost = Requested(x[2])]
            ELSE holdings'[i] = holdings[i]

(* An update of a held ticker sets both numbers or, malformed, neither      *)
HeldUpdate(t, x) ==
    IF Malformed(x)
    THEN out'.status = 500 /\ out'.error # "" /\ holdings' = holdings
    ELSE out'.status = 200 /\ BothSet(t, x)

(* C10 as stated: an update_holding request for a ticker that is not held   *)
(* is rejected with a not-found error and changes no holding; for a held    *)
(* ticker both shares and average cost take the requested values or, the    *)
(* request being rejected as malformed, neither changes.                    *)
C10_AsStated ==
    [][\A t \in UpdateTickers, x \in UpdateInputs, m \in Markets :
            (planner /\ out'.op = "update_holding" /\ update_holding(t, x[1], x[2], m))
                => IF Held(t) THEN HeldUpdate(t, x)
                   ELSE out'.status = 404 /\ holdings' = holdings]_vars

(* C10: an update_holding request for a ticker that is not held changes no  *)
(* holding and is rejected, with a not-found error when its numbers are     *)
(* well formed and with a server error when one is malformed; for a held    *)
(* ticker both shares and average cost take the requested values or, the    *)
(* request being rejected as malformed, neither changes.                    *)
C10_UpdateHolding ==
    [][\A t \in UpdateTickers, x \in UpdateInputs, m \in Markets :
            (planner /\ out'.op = "update_holding" /\ update_holding(t, x[1], x[2], m))
                => IF Held(t) THEN HeldUpdate(t, x)
                   ELSE /\ holdings' = holdings
                        /\ out'.status = (IF Malformed(x) THEN 500 ELSE 404)
                        /\ out'.error # ""]_vars

(* A malformed update was refused and an earlier update is still in place   *)
C10_Witness ==
    /\ planner /\ out.op = "update_holding" /\ out.status = 500
    /\ \E i \in DOMAIN holdings :
            holdings[i].Ticker = "NVDA" /\ holdings[i].Shares = Rat(5, 2)

(* The quote is the zero-valued one: price 0, change 0, change_percent 0    *)
ZeroValued(q) == q.price = Zero /\ q.change = Zero /\ q.change_percent.val = Zero

(* After the step, the session holds for every ticker of the list what the  *)
(* answer of market m for that ticker alone produces.                       *)
AnsweredBy(m) ==
    /\ DOMAIN quotes' = Range(Tickers(holdings'))
    /\ DOMAIN news' = Range(Tickers(holdings'))
    /\ \A t \in DOMAIN quotes' :
            /\ Response(m, t).kind \in {"error", "malformed"} =>
                    ZeroValued(quotes'[t]) /\ news'[t] = <<>>
            /\ Response(m, t).kind = "ok" =>
                    /\ quotes'[t].price = Response(m, t).price
                    /\ quotes'[t].change = Response(m, t).change
                    /\ quotes'[t].change_percent.val = Response(m, t).pct
                    /\ news'[t] = SubSeq(Response(m, t).articles, 1, Len(news'[t]))

(* The errors InvestmentPlanner.__init__ raises                             *)
ConstructionErrors ==
    {"ValueError: percentages", "ValueError: API key not set",
     "ValueError: unsupported provider"}

(* C11: a batch fetch by any of the three provider clients never raises and *)
(* returns an entry for every requested ticker; a ticker whose request      *)
(* fails or whose body cannot be read gets the zero-valued quote and the    *)
(* empty news list, and every other ticker of the batch gets what its own   *)
(* response produced.                                                      *)
C11_BatchIsolation ==
    [][/\ \A m \in FirstFetch, m2 \in Markets :
            (planner /\ out'.op = "refresh_data" /\ refresh_data(m, m2))
                => (out'.status = 200 /\ AnsweredBy(m2))
       /\ (out'.op = "main" /\ out'.error \notin ConstructionErrors) => planner'
       /\ \A c \in CliContributions, prov \in CliProviders, npt \in CliNewsPerTicker,
             config_file \in ConfigFiles, m \in Markets, now \in Clock :
            (out'.op = "main" /\ planner' /\ contribution' = c /\ provider' = prov
                /\ news_per_ticker' = npt /\ main(c, prov, npt, config_file, m, now))
                => AnsweredBy(m)]_vars

C11_Witness ==
    /\ planner /\ out.op = "refresh_data" /\ out.status = 200
    /\ quotes["UNH"] = PlaceholderQuote /\ news["UNH"] = <<>>
    /\ quotes["UPS"] = PlaceholderQuote
    /\ quotes["NVDA"].price = Num(100) /\ news["NVDA"] = <<"a1", "a2", "a3">>

(* C12: the price, change and change_percent of every quote a provider      *)
(* client stored are numbers, so that the export can format the percentage  *)
(* with two decimals.                                                      *)
C12_QuoteFieldsAreNumbers ==
    /\ planner => \A t \in DOMAIN quotes : quotes[t].change_percent.type = "num"
    /\ out.error # "ValueError: format code"

(* The provider a name selects, whatever its case                           *)
Selected(prov) ==
    CASE prov \in {"finnhub", "FINNHUB"} -> "finnhub"
      [] prov \in {"polygon"} -> "polygon"
      [] prov \in {"alpha", "Alpha"} -> "alpha"
      [] OTHER -> "none"

(* C13: with a valid configuration, constructing a planner for provider P   *)
(* succeeds when P's API key is set, whatever the other two keys are, and   *)
(* raises the missing-key error when P's key is unset; a name that is none  *)
(* of finnhub, polygon and alpha in any case always fails; and the          *)
(* missing-key error is raised only when the selected provider's key is     *)
(* unset.                                                                  *)
C13_CredentialOfSelectedProvider ==
    [][\A c \in CliContributions, prov \in ProviderNames, npt \in CliNewsPerTicker,
         config_file \in ScriptConfigs :
            (out'.op = "InvestmentPlanner" /\ InvestmentPlanner(c, prov, npt, config_file)) =>
                /\ Selected(prov) = "none" => ~ planner' /\ out'.status = 1
                /\ (Selected(prov) \in Providers \ env) =>
                        /\ ~ planner'
                        /\ SumsTo100(MergedBuckets(config_file))
                                => out'.error = "ValueError: API key not set"
                /\ (Selected(prov) \in env /\ SumsTo100(MergedBuckets(config_file))) =>
                        planner' /\ api_client' = Selected(prov) /\ out'.status = 0
                /\ out'.error = "ValueError: API key not set" =>
                        Selected(prov) \in Providers \ env]_vars

(* A planner for polygon was constructed with the polygon key alone set     *)
C13_Witness ==
    planner /\ pc = "script" /\ api_client = "polygon" /\ env = {"polygon"}

(* C14: the harness - construct the planner with its default provider,      *)
(* replace the client by the mock, fetch and build every view - completes   *)
(* successfully when no provider API key is set in the environment.         *)
C14_HarnessNeedsNoKey ==
    (out.op = "test_investment_planner" /\ env = {}) => (out.status = 0 /\ out.error = "")

(* After the step every quote and every news list of the session is the one *)
(* market m gives now, whatever the session held before.                    *)
FreshFrom(m) ==
    \A t \in DOMAIN quotes' :
        /\ quotes'[t].price =
                IF Response(m, t).kind = "ok" THEN Response(m, t).price ELSE Zero
        /\ t \in DOMAIN news' =>
                news'[t] = SubSeq(Response(m, t).articles, 1, Len(news'[t]))

(* C15: a refresh replaces the quotes and the news wholesale: afterwards    *)
(* the tickers with a quote and the tickers with a news list are each       *)
(* exactly the tickers of the holdings list at the time of the call, and    *)
(* every entry is the freshly fetched one.                                  *)
C15_RefreshReplaces ==
    [][\A m \in FirstFetch, m2 \in Markets :
            (planner /\ out'.op = "refresh_data" /\ refresh_data(m, m2)) =>
                /\ holdings' = holdings
                /\ DOMAIN quotes' = Range(Tickers(holdings))
                /\ DOMAIN news' = Range(Tickers(holdings))
                /\ FreshFrom(m2)]_vars

(* A refresh after a holding was added: the news now cover the new ticker   *)
C15_Witness ==
    /\ planner /\ out.op = "refresh_data" /\ out.status = 200
    /\ Len(holdings) = Len(InitialHoldings) + 1
    /\ DOMAIN news = Range(Tickers(holdings))
    /\ quotes["NVDA"].price = Num(100)

(* C16: in every state of a session, started from the command line or by    *)
(* the web application, the contribution is strictly greater than 0.        *)
C16_ContributionPositive == planner => RPos(contribution)

(* C17: every holding of the list has shares >= 0 and average cost >= 0.    *)
C17_HoldingsNonNegative ==
    planner => \A i \in DOMAIN holdings :
                    RLe(Zero, holdings[i].Shares) /\ RLe(Zero, holdings[i].AvgCost)

(* C18: whatever requests a session has handled one after the other, no     *)
(* two holdings of the list have the same ticker, and no request makes the  *)
(* list shorter or takes a ticker out of it.                                *)
C18_UniqueTickersNoRemoval ==
    /\ [](planner => \A i, j \in DOMAIN holdings :
                        holdings[i].Ticker = holdings[j].Ticker => i = j)
    /\ [][planner => /\ Len(holdings') >= Len(holdings)
                     /\ Tickers(holdings) = SubSeq(Tickers(holdings'), 1, Len(holdings))]_vars

(* A holding was added and a later update request was served                *)
C18_Witness ==
    /\ planner /\ out.op = "update_holding" /\ out.status = 200
    /\ Len(holdings) = Len(InitialHoldings) + 1

(* C19: whatever number of articles per ticker the planner was constructed  *)
(* with, every news list stored after a fetch holds at most that many       *)
(* articles.                                                               *)
C19_NewsWithinLimit ==
    planner => \A t \in DOMAIN news : Len(news[t]) <= news_per_ticker

(* The operations that answer with the holdings view alone                  *)
HoldingsViewOps == {"portfolio", "build_holdings_dataframe"}

(* The view without its Timestamp column                                    *)
Untimed(view) == [i \in DOMAIN view |-> [view[i] EXCEPT !.Timestamp = ""]]

(* Every row of the view is its holding joined with the quote of its ticker *)
JoinedByTicker ==
    /\ Len(out.view) = Len(holdings)
    /\ \A i \in DOMAIN holdings :
            /\ out.view[i].Ticker = holdings[i].Ticker
            /\ out.view[i].Shares = holdings[i].Shares
            /\ out.view[i].AvgCost = holdings[i].AvgCost
            /\ out.view[i].CurrentPrice =
                    IF holdings[i].Ticker \in DOMAIN quotes
                    THEN quotes[holdings[i].Ticker].price ELSE Zero
            /\ out.view[i].MarketValue = RMul(holdings[i].Shares, out.view[i].CurrentPrice)
            /\ holdings[i].Ticker \notin DOMAIN quotes => out.view[i].MarketValue = Zero

(* C20 as stated: two calls of build_holdings_dataframe with equal holdings *)
(* and equal quotes return equal views.                                     *)
C20_AsStated ==
    [][(planner /\ out.op \in HoldingsViewOps /\ out'.op = out.op
            /\ out.error = "" /\ out'.error = "")
        => out'.view = out.view]_vars

(* C20: build_holdings_dataframe joins every holding with the quote of its  *)
(* ticker, with price 0 and market value 0 when the ticker has no quote;    *)
(* the call leaves the holdings and the quotes as they are; and two calls   *)
(* with equal holdings and equal quotes return views that are equal in      *)
(* every column but Timestamp, which holds the time of the call.            *)
C20_HoldingsViewIsAJoin ==
    /\ []((planner /\ out.op \in HoldingsViewOps /\ out.error = "") => JoinedByTicker)
    /\ [][(planner /\ out'.op \in HoldingsViewOps)
            => (holdings' = holdings /\ quotes' = quotes)]_vars
    /\ [][(planner /\ out.op \in HoldingsViewOps /\ out'.op = out.op
                /\ out.error = "" /\ out'.error = "")
            => Untimed(out'.view) = Untimed(out.view)]_vars

(* A view was built for a planner that has no quote for any holding: every  *)
(* price and market value is 0                                              *)
C20_Witness ==
    /\ planner /\ out.op = "build_holdings_dataframe" /\ out.error = ""
    /\ DOMAIN quotes = {}
    /\ Len(out.view) = Len(InitialHoldings)
    /\ out.view[1].Shares = Rat(103, 100) /\ out.view[1].MarketValue = Zero

(* The index in the view of the k-th top performer                          *)
TopIndex(k) == CHOOSE i \in DOMAIN out.view : out.view[i] = out.top[k]

(* C21: the dashboard's top performers are the 3 holdings (all when there   *)
(* are fewer) with the largest Gain/Loss %, in descending order of it, and  *)
(* holdings of equal Gain/Loss % keep their order in the holdings list.     *)
C21_TopPerformers ==
    (planner /\ out.op = "dashboard" /\ out.error = "") =>
        /\ Len(out.top) = (IF Len(out.view) < 3 THEN Len(out.view) ELSE 3)
        /\ \A k \in DOMAIN out.top : \E i \in DOMAIN out.view : out.view[i] = out.top[k]
        /\ \A k, l \in DOMAIN out.top :
                k < l => /\ RLe(out.top[l].GainLossPct, out.top[k].GainLossPct)
                         /\ out.top[l].GainLossPct = out.top[k].GainLossPct
                                => TopIndex(k) < TopIndex(l)
        /\ \A i \in DOMAIN out.view :
                (\A k \in DOMAIN out.top : out.top[k] # out.view[i]) =>
                    \A k \in DOMAIN out.top :
                        RLe(out.view[i].GainLossPct, out.top[k].GainLossPct)

(* A dashboard whose top performers are a gaining holding followed by two   *)
(* of the holdings with Gain/Loss % 0, in the order of the list, the third  *)
(* and fourth holding with 0 being left out                                 *)
C21_Witness ==
    /\ planner /\ out.op = "dashboard" /\ out.error = ""
    /\ [k \in DOMAIN out.top |-> out.top[k].Ticker] = <<"ZYNE", "UNH", "UPS">>
    /\ RPos(out.top[1].GainLossPct)
    /\ out.top[2].GainLossPct = Zero /\ out.top[3].GainLossPct = Zero
    /\ \E i \in DOMAIN out.view :
            out.view[i].Ticker = "VST" /\ out.view[i].GainLossPct = Zero

(* The number of member tickers of the first n buckets                      *)
RECURSIVE MembersUpTo(_)
MembersUpTo(n) == IF n = 0 THEN 0 ELSE MembersUpTo(n - 1) + Len(buckets[n].tickers)

(* C22: the suggested buys hold exactly one row for each pair of a bucket   *)
(* and one of its member tickers, in bucket order and within a bucket in    *)
(* member order; a bucket without member tickers has no suggested-buy row   *)
(* but has its allocation row.                                              *)
C22_OneBuyRowPerMember ==
    CalcDone =>
        /\ Len(out.allocation) = Len(buckets)
        /\ \A i \in DOMAIN buckets : out.allocation[i].Bucket = buckets[i].name
        /\ Len(out.buys) = MembersUpTo(Len(buckets))
        /\ \A i \in DOMAIN buckets : \A j \in DOMAIN buckets[i].tickers :
                /\ out.buys[MembersUpTo(i - 1) + j].Bucket = buckets[i].name
                /\ out.buys[MembersUpTo(i - 1) + j].Ticker = buckets[i].tickers[j]

(* The tables of a session whose first bucket has no member tickers and     *)
(* whose second has three                                                   *)
C22_Witness ==
    /\ CalcDone /\ Len(buckets) = 2
    /\ buckets[1].tickers = <<>> /\ Len(buckets[2].tickers) = 3
    /\ Len(out.allocation) = 2 /\ Len(out.buys) = 3

(* The rows of the Allocation sheet written by a section                    *)
AllocationRows(section) ==
    {out.book.allocation[k].cell[2] :
        k \in {i \in DOMAIN out.book.allocation : out.book.allocation[i].section = section}}

(* The cells of the Allocation sheet that hold the percentage of a bucket:  *)
(* the data cells of the bucket table under its 'Allocation %' header       *)
PercentageCells ==
    {out.book.allocation[k].cell :
        k \in {i \in DOMAIN out.book.allocation :
                    /\ out.book.allocation[i].section = "buckets"
                    /\ out.book.allocation[i].part = "data"
                    /\ \E h \in DOMAIN out.book.allocation :
                            /\ out.book.allocation[h].section = "buckets"
                            /\ out.book.allocation[h].part = "header"
                            /\ out.book.allocation[h].value = "Allocation %"
                            /\ out.book.allocation[h].cell[1] =
                                    out.book.allocation[i].cell[1]}}

(* C23: in the exported Allocation sheet the cross-check formula sums       *)
(* exactly the percentage cells of the bucket rows, and the bucket table,   *)
(* the 'Suggested Buys' label, the suggested-buys table and the cross-check *)
(* row lie in pairwise disjoint rows.                                       *)
C23_AllocationSheetLayout ==
    ExportDone =>
        /\ \A k \in DOMAIN out.book.allocation :
                (out.book.allocation[k].section = "check"
                    /\ out.book.allocation[k].cell[1] = "B") =>
                    /\ out.book.allocation[k].value.formula = "SUM"
                    /\ {<<out.book.allocation[k].value.col, r>> :
                            r \in out.book.allocation[k].value.first ..
                                  out.book.allocation[k].value.last} = PercentageCells
        /\ Cardinality(PercentageCells) = Len(buckets)
        /\ AllocationRows("check") # {} /\ AllocationRows("label") # {}
        /\ \A a, b \in {"buckets", "label", "buys", "check"} :
                a # b => AllocationRows(a) \cap AllocationRows(b) = {}

(* An exported Allocation sheet with two buckets and three suggested buys   *)
C23_Witness ==
    /\ ExportDone /\ Len(buckets) = 2 /\ Len(out.buys) = 3
    /\ AllocationRows("buckets") = 1..3 /\ AllocationRows("label") = {4}
    /\ AllocationRows("buys") = 6..9 /\ AllocationRows("check") = {10}

(* C24: nothing protects the list of holdings against a lost update.  When  *)
(* a request assigns the copy it built, every ticker another request put in *)
(* the list since this one read it is gone from the list; the request       *)
(* answers success all the same, so that two requests for different new     *)
(* tickers can both report success with one ticker only in the list         *)
(* (C24_Witness).                                                          *)
C24_LostUpdate ==
    [][\A w \in Workers :
          add_holding_assign(w) =>
              /\ requests[w].ticker \in Range(Tickers(holdings'))
              /\ \A t \in Range(Tickers(holdings)) \ Range(Tickers(requests[w].appended)) :
                      t \notin Range(Tickers(holdings'))]_vars

C24_Witness ==
    /\ \A w \in Workers : requests[w].at = "idle" /\ requests[w].status = 200
    /\ {requests[w].ticker : w \in Workers} = {"VTI", "VOO"}
    /\ Cardinality({"VTI", "VOO"} \cap Range(Tickers(holdings))) = 1

(* The member tickers of all allocation buckets                             *)
BucketMembers == UNION {Range(buckets[i].tickers) : i \in DOMAIN buckets}

(* C25: once fetch_market_data has filled the quotes, every member ticker   *)
(* of every allocation bucket has a quote entry, and every suggested-buy    *)
(* row returned carries the price of the fetched quote of its ticker.       *)
C25_BucketMembersQuoted ==
    (planner /\ DOMAIN quotes # {}) =>
        /\ BucketMembers \subseteq DOMAIN quotes
        /\ \A i \in DOMAIN out.buys :
                /\ out.buys[i].Ticker \in DOMAIN quotes
                /\ out.buys[i].Price = quotes[out.buys[i].Ticker].price

(* The sums the two tables of a reply add up to                             *)
BucketAmountSum == RSum([i \in DOMAIN out.allocation |-> out.allocation[i].BiWeekly])
BuyAllocationSum == RSum([i \in DOMAIN out.buys |-> out.buys[i].Allocation])

(* The bucket amounts of the buckets that have a member ticker              *)
AmountWithMembers ==
    RSum([i \in DOMAIN out.allocation |->
            IF Len(buckets[i].tickers) = 0 THEN Zero ELSE out.allocation[i].BiWeekly])

PercentagesSumTo100 == RSum([i \in DOMAIN buckets |-> buckets[i].percentage]) = Num(100)

(* C26 as stated: for bucket percentages summing to 100 the bucket amounts  *)
(* sum to the contribution, and so do the dollar allocations of all         *)
(* suggested-buy rows.                                                      *)
C26_AsStated ==
    (CalcDone /\ PercentagesSumTo100) =>
        /\ BucketAmountSum = contribution
        /\ BuyAllocationSum = contribution

(* C26: for bucket percentages summing to 100 the bucket amounts sum to the *)
(* contribution; the dollar allocations of the suggested-buy rows sum to    *)
(* the amounts of the buckets that have a member ticker, which is the       *)
(* contribution exactly when no bucket with a non-zero amount is without    *)
(* member tickers.                                                          *)
C26_ContributionDistributed ==
    CalcDone =>
        /\ PercentagesSumTo100 => BucketAmountSum = contribution
        /\ BuyAllocationSum = AmountWithMembers
        /\ PercentagesSumTo100 =>
                (BuyAllocationSum = contribution <=> AmountWithMembers = BucketAmountSum)

(* A plan of 1000 with 40% in a bucket without tickers: the buckets get     *)
(* 1000, the suggested buys 600                                             *)
C26_Witness ==
    /\ CalcDone /\ PercentagesSumTo100 /\ contribution = Num(1000)
    /\ Len(buckets) = 2 /\ buckets[1].tickers = <<>>
    /\ BucketAmountSum = Num(1000) /\ BuyAllocationSum = Num(600)

(* Some cell of the sheet is written by two sections, or by a header and a  *)
(* data row                                                                 *)
Overwritten(sheet) ==
    \E i, j \in DOMAIN sheet :
        /\ i < j
        /\ sheet[i].cell = sheet[j].cell
        /\ sheet[i].section # sheet[j].section \/ sheet[i].part # sheet[j].part

(* C27: in the Dashboard and the Research sheet of an export no cell is     *)
(* written by two different sections or by a header and a data row.         *)
C27_NoCellWrittenTwice ==
    ExportDone =>
        /\ ~ Overwritten(out.book.dashboard_writes)
        /\ ~ Overwritten(out.book.research)

(* Every ticker of the holdings list has a quote entry                      *)
HoldingsQuoted == Range(Tickers(holdings)) \subseteq DOMAIN quotes

(* C28: while the requests of a web session are handled one after the       *)
(* other, every ticker of the holdings list of the session's planner has an *)
(* entry in the quotes; and a successful add_holding on that planner adds   *)
(* the quote of the new ticker, leaving every quote entry there was and all *)
(* the news as they were.                                                   *)
C28_HoldingsAreQuoted ==
    /\ [](pc = "web" /\ planner => HoldingsQuoted)
    /\ [][\A t \in AddTickers, x \in AddInputs, m2 \in Markets :
            (/\ planner /\ out'.op = "add_holding" /\ out'.status = 200
             /\ add_holding(t, x[1], x[2], "mock", m2))
                => /\ Upper(t) \in DOMAIN quotes' \ DOMAIN quotes
                   /\ \A u \in DOMAIN quotes : quotes'[u] = quotes[u]
                   /\ news' = news]_vars

(* A ticker added to a session whose quotes came from the first fetch: the  *)
(* list has 17 tickers, each with its quote                                 *)
C28_Witness ==
    /\ pc = "web" /\ planner /\ out.op = "add_holding" /\ out.status = 200
    /\ Len(holdings) = Len(InitialHoldings) + 1
    /\ holdings[Len(holdings)].Ticker = "VTI"
    /\ DOMAIN quotes = Range(Tickers(holdings))
    /\ "VTI" \notin DOMAIN news

(* The requests that only read the session                                  *)
ReadOnlyOps ==
    {"dashboard", "portfolio", "allocation", "research", "get_stock_info", "export_excel"}

(* The holdings after the step are those before it, but for the shares and  *)
(* the average cost of the rows of ticker                                   *)
OnlySharesAndCostOf(ticker) ==
    /\ Len(holdings') = Len(holdings)
    /\ \A i \in DOMAIN holdings :
            /\ holdings'[i].Ticker = holdings[i].Ticker
            /\ holdings'[i].CompanyName = holdings[i].CompanyName
            /\ holdings'[i].Category = holdings[i].Category
            /\ holdings[i].Ticker # ticker => holdings'[i] = holdings[i]

(* C29: a successful update_holding for a ticker changes only the shares    *)
(* and the average cost of that ticker: its company name and category, the  *)
(* other holdings, the order and the number of the holdings, the            *)
(* contribution, the quotes and the news stay as they were; and a dashboard, *)
(* portfolio, allocation, research, stock_info or export request changes    *)
(* none of the holdings, the contribution, the quotes and the news of the   *)
(* session's planner.                                                       *)
C29_FrameOfUpdateAndReads ==
    [][/\ \A t \in UpdateTickers, x \in UpdateInputs :
            (/\ planner /\ out'.op = "update_holding" /\ out'.status = 200
             /\ update_holding(t, x[1], x[2], "mock"))
                => /\ OnlySharesAndCostOf(Upper(t))
                   /\ UNCHANGED <<contribution, quotes, news>>
       /\ (planner /\ pc' = "web" /\ out'.op \in ReadOnlyOps)
                => UNCHANGED <<holdings, contribution, quotes, news>>]_vars

(* An answer for a ticker that is not held, fetched from a market other     *)
(* than the one the session's quotes came from, after an update of NVDA     *)
C29_Witness ==
    /\ planner /\ out.op = "get_stock_info" /\ out.status = 200
    /\ out.data.ticker = "ZZZ" /\ "ZZZ" \notin DOMAIN quotes
    /\ holdings[1].Ticker = "NVDA" /\ holdings[1].Shares = Rat(5, 2)
    /\ holdings[1].CompanyName = "NVIDIA Corporation"

====
